---- MODULE Spec2Model ----
(***************************************************************************)
(* panqake: the stack store (utils/config.py), the commands that write it  *)
(* (new, track, untrack, delete, sync) and the conflict-aware update       *)
(* propagation of update and sync.                                         *)
(*                                                                         *)
(* The stack file maps repository id -> branch -> {"parent": p}.  A JSON   *)
(* object / Python dict keeps insertion order, so each repository's        *)
(* mapping is a sequence of records [name, parent] with distinct names.    *)
(***************************************************************************)
EXTENDS Integers, Sequences, FiniteSets, TLC

\* ---------------------------------------------------------------- bounds
\* feature branches `pq new` may create under Spec
MaxBranches == 2

\* feature branches of the stacks SpecForest starts from
MaxStack == 3

BranchNames == <<"a", "b", "c", "d", "e", "f">>

\* the trunk; sync_with_remote's default main_branch
MainBranch == "main"

NewNames == {BranchNames[i] : i \in 1..MaxBranches}

Features == {BranchNames[i] : i \in 1..(IF MaxBranches > MaxStack THEN MaxBranches ELSE MaxStack)}

Branches == Features \cup {MainBranch}

\* local branches in the order `git branch` lists them
BranchOrder == BranchNames \o <<MainBranch>>

\* get_repo_id() of the repository the commands run in
RepoId == "repo"

\* another repository sharing the same stack file
OtherRepo == "other"

\* Python's "" (no parent) and None (the start branch's pair in the traversal)
NoParent == ""

None == "<None>"

\* branch names find_oldest_branch_without_pr treats as the trunk
TrunkNames == {"main", "master"}

\* a stack file whose text json.load rejects (also the file just after
\* open(STACK_FILE, "w") truncated it)
Corrupt == [r \in {"<unparseable>"} |-> <<>>]

\* the file init_panqake writes: {}
EmptyFile == [r \in {} |-> <<>>]

\* procs: the local state of panqake processes running side by side
\* (empty while the commands of one shell run one after the other)
VARIABLES stacks, gitBranches, currentBranch, last, procs

vars == <<stacks, gitBranches, currentBranch, last, procs>>

\* ------------------------------------------------------------ sequences
ToSet(s) == {s[i] : i \in 1..Len(s)}

Names(recs) == [i \in 1..Len(recs) |-> recs[i].name]

IndexOf(s, x) == CHOOSE i \in 1..Len(s) : s[i] = x

NoDup(s) == \A i, j \in 1..Len(s) : s[i] = s[j] => i = j

Firsts(pairs) == [i \in 1..Len(pairs) |-> pairs[i][1]]

\* the members of S in `git branch` order
Listed(S) == LET In(x) == x \in S IN SelectSeq(BranchOrder, In)

\* ------------------------------------------------------- the stack file
\* json.load that hands back whatever the file holds
json_load_lenient(file) == [ok |-> TRUE, value |-> file]

\* json.load(f): the parsed mapping, or JSONDecodeError (ok = FALSE)
json_load(file) ==
    IF file = Corrupt
    THEN [ok |-> FALSE, value |-> EmptyFile]
    ELSE [ok |-> TRUE, value |-> file]

\* json.load of the stack file, restricted to the current repository
RepoStack(stk) == IF RepoId \in DOMAIN stk THEN stk[RepoId] ELSE <<>>

Tracked(stk) == ToSet(Names(RepoStack(stk)))

get_parent_branch(stk, branch) ==
    LET recs == RepoStack(stk)
    IN  IF branch \in ToSet(Names(recs))
        THEN recs[IndexOf(Names(recs), branch)].parent
        ELSE NoParent

\* get_child_branches answering only for branches that have a record
get_child_branches_tracked(stk, branch) ==
    LET recs == RepoStack(stk)
        Test(r) == r.parent = branch
    IN  IF branch \in ToSet(Names(recs)) THEN Names(SelectSeq(recs, Test)) ELSE <<>>

get_child_branches(stk, branch) ==
    LET recs == RepoStack(stk)
        Test(r) == r.parent = branch
    IN  Names(SelectSeq(recs, Test))

\* add_to_stack dumping the current repository's mapping alone
added_only_repo(repo_id, loaded, branch, parent) ==
    LET parsed == IF loaded.ok THEN loaded.value ELSE EmptyFile
        recs == IF repo_id \in DOMAIN parsed THEN parsed[repo_id] ELSE <<>>
        new  == IF branch \in ToSet(Names(recs))
                THEN [i \in 1..Len(recs) |->
                        IF recs[i].name = branch
                        THEN [name |-> branch, parent |-> parent]
                        ELSE recs[i]]
                ELSE Append(recs, [name |-> branch, parent |-> parent])
    IN  [r \in {repo_id} |-> new]

\* add_to_stack after the file was read: the mapping it dumps when it
\* runs in repository repo_id and json.load returned `loaded`
added(repo_id, loaded, branch, parent) ==
    LET parsed == IF loaded.ok THEN loaded.value ELSE EmptyFile
        recs == IF repo_id \in DOMAIN parsed THEN parsed[repo_id] ELSE <<>>
        new  == IF branch \in ToSet(Names(recs))
                THEN [i \in 1..Len(recs) |->
                        IF recs[i].name = branch
                        THEN [name |-> branch, parent |-> parent]
                        ELSE recs[i]]
                ELSE Append(recs, [name |-> branch, parent |-> parent])
    IN  [r \in DOMAIN parsed \cup {repo_id} |->
            IF r = repo_id THEN new ELSE parsed[r]]

\* add_to_stack with its two arguments exchanged
add_to_stack_swapped(stk, branch, parent) == added(RepoId, json_load(stk), parent, branch)

add_to_stack(stk, branch, parent) == added(RepoId, json_load(stk), branch, parent)

\* remove_from_stack without the loop that re-links the children
remove_from_stack_no_relink(stk, branch) ==
    IF RepoId \notin DOMAIN stk \/ branch \notin Tracked(stk)
    THEN [ret |-> FALSE, stacks |-> stk, parent |-> NoParent, relinked |-> <<>>]
    ELSE LET Keep(r) == r.name # branch
         IN  [ret |-> TRUE,
              stacks |-> [stk EXCEPT ![RepoId] = SelectSeq(stk[RepoId], Keep)],
              parent |-> get_parent_branch(stk, branch), relinked |-> <<>>]

\* remove_from_stack that treats a missing record as removed and rewrites
\* the file with only the current repository's mapping
remove_from_stack_absent_ok(stk, branch) ==
    IF RepoId \notin DOMAIN stk
    THEN [ret |-> FALSE, stacks |-> stk, parent |-> NoParent, relinked |-> <<>>]
    ELSE LET recs   == stk[RepoId]
             parent == get_parent_branch(stk, branch)
             relinked == [i \in 1..Len(recs) |->
                            IF recs[i].parent = branch
                            THEN [name |-> recs[i].name, parent |-> parent]
                            ELSE recs[i]]
             Keep(r) == r.name # branch
         IN  [ret |-> TRUE,
              stacks |-> [r \in {RepoId} |-> SelectSeq(relinked, Keep)],
              parent |-> parent, relinked |-> get_child_branches(stk, branch)]

\* remove_from_stack that re-links the children to the trunk
remove_from_stack_to_trunk(stk, branch) ==
    IF RepoId \notin DOMAIN stk \/ branch \notin Tracked(stk)
    THEN [ret |-> FALSE, stacks |-> stk, parent |-> NoParent, relinked |-> <<>>]
    ELSE LET recs   == stk[RepoId]
             relinked == [i \in 1..Len(recs) |->
                            IF recs[i].parent = branch
                            THEN [name |-> recs[i].name, parent |-> MainBranch]
                            ELSE recs[i]]
             Keep(r) == r.name # branch
         IN  [ret |-> TRUE,
              stacks |-> [stk EXCEPT ![RepoId] = SelectSeq(relinked, Keep)],
              parent |-> get_parent_branch(stk, branch),
              relinked |-> get_child_branches(stk, branch)]

\* ret: the value returned; stacks: the file afterwards; parent and relinked
\* log the removed record's parent and the children the loop re-linked
remove_from_stack(stk, branch) ==
    IF RepoId \notin DOMAIN stk \/ branch \notin Tracked(stk)
    THEN [ret |-> FALSE, stacks |-> stk, parent |-> NoParent, relinked |-> <<>>]
    ELSE LET recs   == stk[RepoId]
             parent == get_parent_branch(stk, branch)
             relinked == [i \in 1..Len(recs) |->
                            IF recs[i].parent = branch
                            THEN [name |-> recs[i].name, parent |-> parent]
                            ELSE recs[i]]
             Keep(r) == r.name # branch
         IN  [ret |-> TRUE,
              stacks |-> [stk EXCEPT ![RepoId] = SelectSeq(relinked, Keep)],
              parent |-> parent, relinked |-> get_child_branches(stk, branch)]

\* ------------------------------------------------------------------ init
\* `last` is the report of the command that is running or has just ended;
\* it is Idle while the shell waits for the next command
Idle == [op |-> "idle"]

NoProcs == <<>>

OtherOnly == [r \in {OtherRepo} |-> <<[name |-> "x", parent |-> MainBranch]>>]

Init ==
    /\ stacks = OtherOnly
    /\ gitBranches = {MainBranch}
    /\ currentBranch = MainBranch
    /\ last = Idle
    /\ procs = NoProcs


\* the checks of create_new_branch without the test for an existing branch
new_refusal_no_exists_test(git, branch_name, base) ==
    IF base \notin git THEN "no_base" ELSE "ok"

\* the checks create_new_branch makes before `git checkout -b`
new_refusal(git, branch_name, base) ==
    IF branch_name \in git THEN "exists"
    ELSE IF base \notin git THEN "no_base"
    ELSE "ok"

\* ------------------------------------------------------------- commands
\* pq new <branch_name> [base_branch]
create_new_branch(branch_name, base_branch, git_ok) ==
    LET base    == IF base_branch = None THEN currentBranch ELSE base_branch
        refusal == new_refusal(gitBranches, branch_name, base)
        Done(outcome, exit) ==
            last' = [op |-> "new", branch |-> branch_name, base |-> base,
                     outcome |-> outcome, exit |-> exit, git_ok |-> git_ok,
                     before |-> stacks, branches_before |-> gitBranches,
                     current_before |-> currentBranch]
    IN  IF refusal # "ok"
        THEN /\ Done(refusal, 1)
             /\ UNCHANGED <<stacks, gitBranches, currentBranch>>
        ELSE IF ~git_ok
        THEN /\ Done("git_failed", 1)
             /\ UNCHANGED <<stacks, gitBranches, currentBranch>>
        ELSE /\ gitBranches' = gitBranches \cup {branch_name}
             /\ currentBranch' = branch_name
             /\ stacks' = add_to_stack(stacks, branch_name, base)
             /\ Done("success", 0)

New ==
    /\ last = Idle
    /\ UNCHANGED procs
    /\ \E branch_name \in NewNames, base_branch \in Branches \cup {None},
       git_ok \in BOOLEAN :
          \* one input per distinguishable run: git is reached only past the checks
          /\ git_ok \/ new_refusal(gitBranches, branch_name,
                                   IF base_branch = None THEN currentBranch
                                   ELSE base_branch) = "ok"
          /\ create_new_branch(branch_name, base_branch, git_ok)

\* git.get_potential_parents: every other local branch whose merge-base with
\* `branch` lies in the history of `branch`.  All branches of the repository
\* descend from the trunk's root commit, so that is every other local branch.
get_potential_parents(branch) ==
    IF branch \in gitBranches THEN gitBranches \ {branch} ELSE {}

\* pq track [branch_name]: the parent is picked at a prompt among the
\* potential parents (None: nothing picked) and recorded with add_to_stack
track(branch_name, selected) ==
    LET branch == IF branch_name = None THEN currentBranch ELSE branch_name
    IN  IF get_potential_parents(branch) = {}
        THEN /\ last' = [op |-> "track", outcome |-> "no_parents"]
             /\ UNCHANGED <<stacks, gitBranches, currentBranch>>
        ELSE IF selected = None
        THEN /\ last' = [op |-> "track", outcome |-> "cancelled"]
             /\ UNCHANGED <<stacks, gitBranches, currentBranch>>
        ELSE /\ selected \in get_potential_parents(branch)
             /\ stacks' = add_to_stack(stacks, branch, selected)
             /\ last' = [op |-> "track", branch |-> branch, parent |-> selected,
                         outcome |-> "success"]
             /\ UNCHANGED <<gitBranches, currentBranch>>

Track ==
    /\ last = Idle
    /\ UNCHANGED procs
    /\ \E branch_name \in Features \cup {None}, selected \in Branches \cup {None} :
          track(branch_name, selected)

\* pq untrack [branch_name]: remove_from_stack on the branch, git untouched
untrack(branch_name) ==
    LET branch == IF branch_name = None THEN currentBranch ELSE branch_name
        res    == remove_from_stack(stacks, branch)
    IN  /\ stacks' = res.stacks
        /\ last' = [op |-> "untrack", branch |-> branch, ret |-> res.ret,
                     parent |-> res.parent, relinked |-> res.relinked]
        /\ UNCHANGED <<gitBranches, currentBranch>>

Untrack ==
    /\ last = Idle
    /\ UNCHANGED procs
    /\ \E branch_name \in Branches \cup {None} : untrack(branch_name)

\* delete_branch's loop with add_to_stack(child, parent_branch) placed before
\* the rebase of the child: the child git fails on is re-linked already
RECURSIVE RelinkFirst(_, _, _, _)
RelinkFirst(stk, children, parent, m) ==
    IF m = 0 \/ parent = NoParent
    THEN stk
    ELSE add_to_stack(RelinkFirst(stk, children, parent, m - 1), children[m], parent)

Relinked_before_rebase(stk, children, parent, k) == RelinkFirst(stk, children, parent, IF k < Len(children) THEN k + 1 ELSE k)

\* the stack after delete_branch's loop re-linked the first k children
RECURSIVE Relinked(_, _, _, _)
Relinked(stk, children, parent, k) ==
    IF k = 0 \/ parent = NoParent
    THEN stk
    ELSE add_to_stack(Relinked(stk, children, parent, k - 1), children[k], parent)

\* the checks of delete_branch that skip the test of the parent
delete_refusal_no_parent_test(stk, git, current_branch, branch_name) ==
    IF branch_name \notin git THEN "no_branch"
    ELSE IF branch_name = current_branch THEN "is_current"
    ELSE "ok"

\* the checks delete_branch makes before it asks for confirmation
delete_refusal(stk, git, current_branch, branch_name) ==
    LET parent_branch == get_parent_branch(stk, branch_name)
    IN  IF branch_name \notin git THEN "no_branch"
        ELSE IF branch_name = current_branch THEN "is_current"
        ELSE IF parent_branch # NoParent /\ parent_branch \notin git THEN "no_parent"
        ELSE "ok"

\* the git commands of delete_branch's loop over the first k children, all
\* successful: checkout of the child, rebase onto the parent when there is one
RECURSIVE LoopCommands(_, _, _)
LoopCommands(children, parent, k) ==
    IF k = 0
    THEN <<>>
    ELSE LoopCommands(children, parent, k - 1)
            \o <<<<"checkout", children[k]>>>>
            \o (IF parent # NoParent THEN <<<<"rebase", parent>>>> ELSE <<>>)

\* pq delete <branch_name>.  fail_at = i > 0: git fails on the i-th child,
\* at its checkout (fail_kind "checkout") or at its rebase ("rebase").
\* The report keeps the state the command started from, the commands given
\* to git that change the repository, and the exit status.
delete_branch(branch_name, confirm, fail_at, fail_kind, delete_ok) ==
    LET current_branch == currentBranch
        parent_branch  == get_parent_branch(stacks, branch_name)
        child_branches == get_child_branches(stacks, branch_name)
        n              == Len(child_branches)
        refusal        == delete_refusal(stacks, gitBranches, current_branch, branch_name)
        \* the run retries the delete that a rebase conflict aborted just before
        rerun          == /\ last.op = "delete"
                          /\ last.outcome = "rebase_conflict"
                          /\ last.branch = branch_name
        Done(outcome, exit, git) ==
            last' = [op |-> "delete", branch |-> branch_name,
                     outcome |-> outcome, exit |-> exit, git |-> git,
                     parent_branch |-> parent_branch,
                     child_branches |-> child_branches,
                     fail_at |-> fail_at, confirm |-> confirm,
                     rerun |-> rerun,
                     original |-> IF rerun THEN last.original ELSE child_branches,
                     earlier |-> IF rerun
                                 THEN last.earlier \o SubSeq(last.child_branches, 1, last.fail_at - 1)
                                 ELSE <<>>,
                     before |-> stacks, branches_before |-> gitBranches,
                     current_before |-> currentBranch]
        Refused(outcome, exit) ==
            /\ Done(outcome, exit, <<>>)
            /\ UNCHANGED <<stacks, gitBranches, currentBranch>>
    IN  IF refusal # "ok"
        THEN Refused(refusal, 1)
        ELSE IF ~confirm
        THEN Refused("cancelled", 0)
        ELSE IF fail_at \in 1..n /\ fail_kind = "checkout"
        THEN /\ Done("checkout_failed", 1,
                     LoopCommands(child_branches, parent_branch, fail_at - 1)
                        \o <<<<"checkout", child_branches[fail_at]>>,
                             <<"checkout", current_branch>>>>)
             /\ stacks' = Relinked(stacks, child_branches, parent_branch, fail_at - 1)
             /\ UNCHANGED <<gitBranches, currentBranch>>
        ELSE IF fail_at \in 1..n /\ fail_kind = "rebase" /\ parent_branch # NoParent
        THEN /\ Done("rebase_conflict", 1,
                     LoopCommands(child_branches, parent_branch, fail_at - 1)
                        \o <<<<"checkout", child_branches[fail_at]>>,
                             <<"rebase", parent_branch>>>>)
             /\ stacks' = Relinked(stacks, child_branches, parent_branch, fail_at - 1)
             /\ currentBranch' = child_branches[fail_at]
             /\ UNCHANGED gitBranches
        ELSE IF ~delete_ok
        THEN /\ Done("delete_failed", 1,
                     LoopCommands(child_branches, parent_branch, n)
                        \o <<<<"checkout", current_branch>>, <<"branch -D", branch_name>>>>)
             /\ stacks' = Relinked(stacks, child_branches, parent_branch, n)
             /\ UNCHANGED <<gitBranches, currentBranch>>
        ELSE /\ Done("success", 0,
                     LoopCommands(child_branches, parent_branch, n)
                        \o <<<<"checkout", current_branch>>, <<"branch -D", branch_name>>>>)
             /\ stacks' = remove_from_stack(
                              Relinked(stacks, child_branches, parent_branch, n),
                              branch_name).stacks
             /\ gitBranches' = gitBranches \ {branch_name}
             /\ UNCHANGED currentBranch

Delete ==
    /\ last = Idle
    /\ UNCHANGED procs
    /\ \E branch_name \in Branches, confirm \in BOOLEAN,
       fail_at \in 0..Cardinality(Features),
       fail_kind \in {"checkout", "rebase"}, delete_ok \in BOOLEAN :
          \* one input per distinguishable run
          /\ fail_at <= Len(get_child_branches(stacks, branch_name))
          /\ ~confirm => fail_at = 0 /\ delete_ok
          /\ fail_at = 0 => fail_kind = "checkout"
          /\ fail_at > 0 => delete_ok
          /\ delete_branch(branch_name, confirm, fail_at, fail_kind, delete_ok)

\* `panqake delete <branch>` run again, as the message of the rebase conflict
\* asks: the rebase was continued or aborted by hand and the failing child is
\* still checked out
DeleteAgain ==
    /\ last.op = "delete"
    /\ last.outcome = "rebase_conflict"
    /\ UNCHANGED procs
    /\ \E confirm \in BOOLEAN, fail_at \in 0..Cardinality(Features),
          fail_kind \in {"checkout", "rebase"}, delete_ok \in BOOLEAN :
          /\ fail_at <= Len(get_child_branches(stacks, last.branch))
          /\ ~confirm => fail_at = 0 /\ delete_ok
          /\ fail_at = 0 => fail_kind = "checkout"
          /\ fail_at > 0 => delete_ok
          /\ delete_branch(last.branch, confirm, fail_at, fail_kind, delete_ok)

\* pq switch <branch_name> (git checkout)
switch_branch(branch_name) ==
    /\ branch_name \in gitBranches
    /\ branch_name # currentBranch
    /\ currentBranch' = branch_name
    /\ last' = [op |-> "switch", branch |-> branch_name]
    /\ UNCHANGED <<stacks, gitBranches>>

Switch ==
    /\ last = Idle
    /\ UNCHANGED procs
    /\ \E branch_name \in Branches : switch_branch(branch_name)

\* find_stack_root, counting the parent edges it follows.  Following more
\* than |tracked| edges revisits a tracked branch: the recursion is then in
\* a cycle of parent pointers and never returns.
RECURSIVE FindRoot(_, _, _)
FindRoot(stk, branch, steps) ==
    LET parent == get_parent_branch(stk, branch)
    IN  IF parent = NoParent
        THEN [root |-> branch, steps |-> steps, returns |-> TRUE]
        ELSE IF steps >= Cardinality(Tracked(stk))
        THEN [root |-> None, steps |-> steps + 1, returns |-> FALSE]
        ELSE FindRoot(stk, parent, steps + 1)

find_stack_root(stk, branch) == FindRoot(stk, branch, 0)

\* pq list [branch_name]
list_branches(branch_name) ==
    LET branch == IF branch_name = None THEN currentBranch ELSE branch_name
        res    == find_stack_root(stacks, branch)
    IN  /\ IF branch \notin gitBranches
           THEN last' = [op |-> "list", outcome |-> "no_branch"]
           ELSE last' = [op |-> "list", branch |-> branch,
                         outcome |-> IF res.returns THEN "printed" ELSE "diverged",
                         root |-> res.root, steps |-> res.steps]
        /\ UNCHANGED <<stacks, gitBranches, currentBranch>>

List ==
    /\ last = Idle
    /\ UNCHANGED procs
    /\ \E branch_name \in Branches \cup {None} : list_branches(branch_name)

\* ------------------------------------------------- update propagation
\* Stacks.get_children / Stacks.branch_exists read the same stack file
get_children(stk, branch) == get_child_branches(stk, branch)

branch_exists(stk, branch) == branch \in Tracked(stk)

\* The traversal loop of update_branch_and_children: branches_to_process is
\* a FIFO of (branch, parent) pairs.  In a store where every branch has one
\* parent a terminating traversal pops every tracked branch at most once,
\* so a traversal still running after |tracked| + 1 pops never ends.
RECURSIVE Traverse(_, _, _, _)
Traverse(stk, branches_to_process, all_branches_to_update, pops) ==
    IF branches_to_process = <<>>
    THEN [order |-> all_branches_to_update, ends |-> TRUE]
    ELSE IF pops > Cardinality(Tracked(stk))
    THEN [order |-> all_branches_to_update, ends |-> FALSE]
    ELSE LET current  == Head(branches_to_process)[1]
             parent   == Head(branches_to_process)[2]
             children == get_children(stk, current)
         IN  Traverse(stk,
                      Tail(branches_to_process)
                          \o [i \in 1..Len(children) |-> <<children[i], current>>],
                      IF parent # None
                      THEN Append(all_branches_to_update, <<current, parent>>)
                      ELSE all_branches_to_update,
                      pops + 1)

Reverse(s) == [i \in 1..Len(s) |-> s[Len(s) + 1 - i]]

\* the work list built by inserting each pair at the front
work_list_reversed(stk, branch) ==
    LET w == Traverse(stk, <<<<branch, None>>>>, <<>>, 0)
    IN  [order |-> Reverse(w.order), ends |-> w.ends]

work_list(stk, branch) == Traverse(stk, <<<<branch, None>>>>, <<>>, 0)

\* The processing loop of update_branch_and_children.  `fails` is the set of
\* branches on which update_branch_with_conflict_detection (checkout, rebase,
\* abort on conflict) reports failure; `attempted` logs its invocations.
RECURSIVE Process(_, _, _, _, _, _)
Process(work, fails, i, updated_branches, conflict_branches, attempted) ==
    IF i > Len(work)
    THEN [updated |-> updated_branches, conflicts |-> conflict_branches,
          attempted |-> attempted]
    ELSE LET child  == work[i][1]
             parent == work[i][2]
         IN  IF parent \in ToSet(conflict_branches)
             THEN Process(work, fails, i + 1, updated_branches,
                          Append(conflict_branches, child), attempted)
             ELSE IF child \in fails
             THEN Process(work, fails, i + 1, updated_branches,
                          Append(conflict_branches, child), Append(attempted, child))
             ELSE Process(work, fails, i + 1, Append(updated_branches, child),
                          conflict_branches, Append(attempted, child))

\* the processing loop without the "parent in conflict_branches" test
RECURSIVE ProcessNoSkip(_, _, _, _, _, _)
ProcessNoSkip(work, fails, i, updated_branches, conflict_branches, attempted) ==
    IF i > Len(work)
    THEN [updated |-> updated_branches, conflicts |-> conflict_branches,
          attempted |-> attempted]
    ELSE LET child == work[i][1]
         IN  IF child \in fails
             THEN ProcessNoSkip(work, fails, i + 1, updated_branches,
                                Append(conflict_branches, child),
                                Append(attempted, child))
             ELSE ProcessNoSkip(work, fails, i + 1, Append(updated_branches, child),
                                conflict_branches, Append(attempted, child))

process_branches_no_skip(work, fails) ==
    ProcessNoSkip(work, fails, 1, <<>>, <<>>, <<>>)

\* the processing loop that skips a child without recording it
RECURSIVE ProcessForget(_, _, _, _, _, _)
ProcessForget(work, fails, i, updated_branches, conflict_branches, attempted) ==
    IF i > Len(work)
    THEN [updated |-> updated_branches, conflicts |-> conflict_branches,
          attempted |-> attempted]
    ELSE LET child  == work[i][1]
             parent == work[i][2]
         IN  IF parent \in ToSet(conflict_branches)
             THEN ProcessForget(work, fails, i + 1, updated_branches,
                                conflict_branches, attempted)
             ELSE IF child \in fails
             THEN ProcessForget(work, fails, i + 1, updated_branches,
                                Append(conflict_branches, child),
                                Append(attempted, child))
             ELSE ProcessForget(work, fails, i + 1, Append(updated_branches, child),
                                conflict_branches, Append(attempted, child))

process_branches_forget(work, fails) ==
    ProcessForget(work, fails, 1, <<>>, <<>>, <<>>)

\* the processing loop that stops at the first conflict
RECURSIVE ProcessHalt(_, _, _, _, _, _)
ProcessHalt(work, fails, i, updated_branches, conflict_branches, attempted) ==
    IF i > Len(work)
    THEN [updated |-> updated_branches, conflicts |-> conflict_branches,
          attempted |-> attempted]
    ELSE LET child == work[i][1]
         IN  IF child \in fails
             THEN [updated |-> updated_branches,
                   conflicts |-> Append(conflict_branches, child),
                   attempted |-> Append(attempted, child)]
             ELSE ProcessHalt(work, fails, i + 1, Append(updated_branches, child),
                              conflict_branches, Append(attempted, child))

process_branches_halt(work, fails) ==
    ProcessHalt(work, fails, 1, <<>>, <<>>, <<>>)

process_branches(work, fails) == Process(work, fails, 1, <<>>, <<>>, <<>>)

\* update_branch_and_children that drops the record of the first branch it
\* could not rebase
update_branch_and_children_forgetting(stk, branch, fails) ==
    LET work == work_list(stk, branch)
        res  == process_branches(work.order, fails)
    IN  [order |-> work.order, ends |-> work.ends, updated |-> res.updated,
         conflicts |-> res.conflicts, attempted |-> res.attempted,
         stacks |-> IF res.conflicts = <<>>
                    THEN stk
                    ELSE remove_from_stack(stk, res.conflicts[1]).stacks]

\* update_branch_and_children(branch, current_branch): the two lists it
\* returns, and the stack file as it leaves it (it only reads the file)
update_branch_and_children(stk, branch, fails) ==
    LET work == work_list(stk, branch)
        res  == process_branches(work.order, fails)
    IN  [order |-> work.order, ends |-> work.ends, updated |-> res.updated,
         conflicts |-> res.conflicts, attempted |-> res.attempted,
         stacks |-> stk]

\* sync.py carries its own copy of the two loops
RECURSIVE SyncTraverse(_, _, _, _)
SyncTraverse(stk, branches_to_process, all_branches_to_update, pops) ==
    IF branches_to_process = <<>>
    THEN [order |-> all_branches_to_update, ends |-> TRUE]
    ELSE IF pops > Cardinality(Tracked(stk))
    THEN [order |-> all_branches_to_update, ends |-> FALSE]
    ELSE LET current  == Head(branches_to_process)[1]
             parent   == Head(branches_to_process)[2]
             children == get_children(stk, current)
         IN  SyncTraverse(stk,
                          Tail(branches_to_process)
                              \o [i \in 1..Len(children) |-> <<children[i], current>>],
                          IF parent # None
                          THEN Append(all_branches_to_update, <<current, parent>>)
                          ELSE all_branches_to_update,
                          pops + 1)

sync_work_list(stk, branch_name) ==
    SyncTraverse(stk, <<<<branch_name, None>>>>, <<>>, 0)

RECURSIVE SyncProcess(_, _, _, _, _, _)
SyncProcess(work, fails, i, updated_branches, conflict_branches, attempted) ==
    IF i > Len(work)
    THEN [updated |-> updated_branches, conflicts |-> conflict_branches,
          attempted |-> attempted]
    ELSE LET child  == work[i][1]
             parent == work[i][2]
         IN  IF parent \in ToSet(conflict_branches)
             THEN SyncProcess(work, fails, i + 1, updated_branches,
                              Append(conflict_branches, child), attempted)
             ELSE IF child \in fails
             THEN SyncProcess(work, fails, i + 1, updated_branches,
                              Append(conflict_branches, child),
                              Append(attempted, child))
             ELSE SyncProcess(work, fails, i + 1, Append(updated_branches, child),
                              conflict_branches, Append(attempted, child))

\* sync's processing loop inserting a skipped child at the front of
\* conflict_branches
RECURSIVE SyncProcessFront(_, _, _, _, _, _)
SyncProcessFront(work, fails, i, updated_branches, conflict_branches, attempted) ==
    IF i > Len(work)
    THEN [updated |-> updated_branches, conflicts |-> conflict_branches,
          attempted |-> attempted]
    ELSE LET child  == work[i][1]
             parent == work[i][2]
         IN  IF parent \in ToSet(conflict_branches)
             THEN SyncProcessFront(work, fails, i + 1, updated_branches,
                                   <<child>> \o conflict_branches, attempted)
             ELSE IF child \in fails
             THEN SyncProcessFront(work, fails, i + 1, updated_branches,
                                   Append(conflict_branches, child),
                                   Append(attempted, child))
             ELSE SyncProcessFront(work, fails, i + 1,
                                   Append(updated_branches, child),
                                   conflict_branches, Append(attempted, child))

sync_process_branches_front(work, fails) ==
    SyncProcessFront(work, fails, 1, <<>>, <<>>, <<>>)

sync_process_branches(work, fails) == SyncProcess(work, fails, 1, <<>>, <<>>, <<>>)

update_branches_with_conflict_handling(stk, branch_name, fails) ==
    LET work == sync_work_list(stk, branch_name)
        res  == sync_process_branches(work.order, fails)
    IN  [order |-> work.order, ends |-> work.ends, updated |-> res.updated,
         conflicts |-> res.conflicts, attempted |-> res.attempted]

\* the strict ancestors of a branch along recorded parent pointers
RECURSIVE Up(_, _, _)
Up(stk, branch, fuel) ==
    LET parent == get_parent_branch(stk, branch)
    IN  IF parent = NoParent \/ fuel = 0
        THEN {}
        ELSE {parent} \cup Up(stk, parent, fuel - 1)

AncestorsOf(stk, branch) == Up(stk, branch, Cardinality(Tracked(stk)))

Descendants(stk, branch) == {d \in Tracked(stk) : branch \in AncestorsOf(stk, d)}

Acyclic(stk) == \A b \in Tracked(stk) : b \notin AncestorsOf(stk, b)

\* Stacks.get_all_descendants: the subtree below `branch`, without it
get_all_descendants(stk, branch) == Descendants(stk, branch) \ {branch}

\* the updated branches that exist on the remote, in update order
OnRemote(updated_branches, remote) ==
    LET In(b) == b \in remote IN SelectSeq(updated_branches, In)

\* the push loop of update_branches and sync_with_remote.  The call
\* push_branch_to_remote(branch, force=True) names a parameter git.py does
\* not have (it is force_with_lease): the first branch that passes the
\* remote test and is checked out raises TypeError, before any git push.
push_updated(updated_branches, remote, skip_push) ==
    LET to_push == OnRemote(updated_branches, remote)
    IN  IF skip_push \/ to_push = <<>>
        THEN [pushes |-> <<>>, raised |-> FALSE, checked_out |-> <<>>]
        ELSE [pushes |-> <<>>, raised |-> TRUE, checked_out |-> <<to_push[1]>>]

\* get_affected_branches that does not ask
get_affected_branches_unasked(stk, branch_name, confirm) ==
    [is_none |-> get_all_descendants(stk, branch_name) = {},
     affected_branches |-> get_all_descendants(stk, branch_name)]

\* get_affected_branches(branch_name): None (is_none) when there is no
\* descendant or the prompt is declined
get_affected_branches(stk, branch_name, confirm) ==
    LET affected_branches == get_all_descendants(stk, branch_name)
    IN  IF affected_branches = {}
        THEN [is_none |-> TRUE, affected_branches |-> {}]
        ELSE IF ~confirm
        THEN [is_none |-> TRUE, affected_branches |-> {}]
        ELSE [is_none |-> FALSE, affected_branches |-> affected_branches]

\* the run's report that is (True, None) whatever the conflict list holds
update_report_always_ok(returned, conflict_branches) ==
    IF ~returned
    THEN [success |-> FALSE, error |-> "Failed to return to branch"]
    ELSE [success |-> TRUE, error |-> None]

\* the (success, error) pair update_branches returns once its push phase is
\* over: the failed return first, then the conflict list as a whole
update_report(returned, conflict_branches) ==
    IF ~returned
    THEN [success |-> FALSE, error |-> "Failed to return to branch"]
    ELSE IF conflict_branches # <<>>
    THEN [success |-> FALSE, error |-> "Some branches had conflicts during update"]
    ELSE [success |-> TRUE, error |-> None]

\* the pair sync_with_remote returns: the result of its return_to_branch
\* call is not looked at
sync_report(conflict_branches) ==
    IF conflict_branches # <<>>
    THEN [success |-> FALSE, error |-> "Some branches had conflicts during sync"]
    ELSE [success |-> TRUE, error |-> None]

\* pq update [branch_name] [--no-push].  remote: the branches
\* is_branch_pushed_to_remote reports as existing on the remote; return_ok:
\* the checkout of return_to_branch succeeds.
update_branches(branch_name, skip_push, confirm, fails, remote, return_ok) ==
    \E run \in {update_branch_and_children(
                    stacks, IF branch_name = None THEN currentBranch ELSE branch_name,
                    fails)} :
    LET branch         == IF branch_name = None THEN currentBranch ELSE branch_name
        current_branch == currentBranch
        push           == push_updated(run.updated, remote, skip_push)
        Ended(outcome, exit) ==
            /\ last' = [op |-> "update", outcome |-> outcome, exit |-> exit,
                        start |-> branch, confirm |-> confirm,
                        attempted |-> <<>>, pushes |-> <<>>, before |-> stacks,
                        current_before |-> currentBranch]
            /\ UNCHANGED <<stacks, gitBranches, currentBranch>>
        Ran(outcome, ret, returned) ==
            last' = [op |-> "update", outcome |-> outcome, start |-> branch,
                     fails |-> fails, order |-> run.order, updated |-> run.updated,
                     conflicts |-> run.conflicts, attempted |-> run.attempted,
                     ret |-> ret, exit |-> IF push.raised THEN 1 ELSE 0,
                     confirm |-> confirm, skip_push |-> skip_push,
                     remote |-> remote, pushes |-> push.pushes,
                     push_phase |-> ~push.raised, returned |-> returned,
                     before |-> stacks, current_before |-> currentBranch]
    IN  IF ~branch_exists(stacks, branch)
        THEN Ended("no_branch", 1)
        ELSE IF ~run.ends
        THEN Ended("diverged", 1)
        ELSE IF get_affected_branches(stacks, branch, confirm).is_none
        THEN Ended(IF get_all_descendants(stacks, branch) = {}
                   THEN "no_children" ELSE "cancelled", 0)
        ELSE IF push.raised
        THEN /\ Ran("type_error", FALSE, None)
             /\ currentBranch' = push.checked_out[1]
             /\ stacks' = run.stacks
             /\ UNCHANGED gitBranches
        ELSE IF ~return_ok
        THEN /\ Ran("return_failed",
                    update_report(FALSE, run.conflicts).success, current_branch)
             /\ currentBranch' = run.attempted[Len(run.attempted)]
             /\ stacks' = run.stacks
             /\ UNCHANGED gitBranches
        ELSE /\ Ran("done", update_report(TRUE, run.conflicts).success,
                    current_branch)
             /\ stacks' = run.stacks
             /\ UNCHANGED <<gitBranches, currentBranch>>

Update ==
    /\ last = Idle
    /\ UNCHANGED procs
    /\ \E branch_name \in Branches \cup {None} :
        LET branch == IF branch_name = None THEN currentBranch ELSE branch_name
        IN  \* one input per distinguishable run: at most one updated branch
            \* is on the remote, the return matters only when it is reached,
            \* a rebase can fail only where it is attempted
            \/ update_branches(branch_name, FALSE, FALSE, {}, {}, TRUE)
            \/ \E fails \in SUBSET Descendants(stacks, branch), return_ok \in BOOLEAN :
               \E run \in {update_branch_and_children(stacks, branch, fails)} :
                   /\ fails \subseteq ToSet(run.attempted)
                   /\ return_ok \/ get_all_descendants(stacks, branch) # {}
                   /\ \/ update_branches(branch_name, TRUE, TRUE, fails, {}, return_ok)
                      \/ \E remote \in {{}} \cup {{b} : b \in ToSet(run.updated)} :
                             /\ return_ok \/ remote = {}
                             /\ update_branches(branch_name, FALSE, TRUE, fails,
                                                remote, return_ok)

\* the deletion loop that removes the stack record whatever `git branch -D`
\* answered
RECURSIVE HandleMergedUnchecked(_, _, _, _, _, _, _, _)
HandleMergedUnchecked(stk, git, branches_to_delete, i, confirmed, del_fail, deleted, success) ==
    IF i > Len(branches_to_delete)
    THEN [stacks |-> stk, git |-> git, deleted |-> deleted, success |-> success]
    ELSE LET branch == branches_to_delete[i]
         IN  IF branch \notin confirmed
             THEN HandleMergedUnchecked(stk, git, branches_to_delete, i + 1,
                                        confirmed, del_fail, deleted, success)
             ELSE IF branch \in del_fail
             THEN HandleMergedUnchecked(remove_from_stack(stk, branch).stacks, git,
                                        branches_to_delete, i + 1, confirmed,
                                        del_fail, deleted, FALSE)
             ELSE HandleMergedUnchecked(remove_from_stack(stk, branch).stacks,
                                        git \ {branch}, branches_to_delete, i + 1,
                                        confirmed, del_fail,
                                        Append(deleted, branch), success)

\* handle_merged_branches' deletion loop over branches_to_delete[i..]
RECURSIVE HandleMerged(_, _, _, _, _, _, _, _)
HandleMerged(stk, git, branches_to_delete, i, confirmed, del_fail, deleted, success) ==
    IF i > Len(branches_to_delete)
    THEN [stacks |-> stk, git |-> git, deleted |-> deleted, success |-> success]
    ELSE LET branch == branches_to_delete[i]
         IN  IF branch \notin confirmed
             THEN HandleMerged(stk, git, branches_to_delete, i + 1, confirmed,
                               del_fail, deleted, success)
             ELSE IF branch \in del_fail
             THEN HandleMerged(stk, git, branches_to_delete, i + 1, confirmed,
                               del_fail, deleted, FALSE)
             ELSE HandleMerged(remove_from_stack(stk, branch).stacks,
                               git \ {branch}, branches_to_delete, i + 1,
                               confirmed, del_fail, Append(deleted, branch), success)

\* handle_merged_branches that asks about every merged branch
handle_merged_branches_any_parent(stk, git, main_branch, merged, confirmed, del_fail) ==
    LET branches_to_delete == Listed(merged \ {main_branch})
        res == HandleMerged(stk, git, branches_to_delete, 1, confirmed, del_fail,
                            <<>>, TRUE)
    IN  [stacks |-> res.stacks, git |-> res.git, deleted |-> res.deleted,
         success |-> res.success, offered |-> branches_to_delete]

\* merged: the branches `git branch --merged main` lists; confirmed: the
\* branches the user answers yes for; offered: the branches asked about
handle_merged_branches(stk, git, main_branch, merged, confirmed, del_fail) ==
    LET merged_branches    == Listed(merged \ {main_branch})
        ToDelete(b)        == get_parent_branch(stk, b) = main_branch
        branches_to_delete == SelectSeq(merged_branches, ToDelete)
        res == HandleMerged(stk, git, branches_to_delete, 1, confirmed, del_fail,
                            <<>>, TRUE)
    IN  [stacks |-> res.stacks, git |-> res.git, deleted |-> res.deleted,
         success |-> res.success, offered |-> branches_to_delete]

NoRun == [order |-> <<>>, ends |-> TRUE, updated |-> <<>>, conflicts |-> <<>>,
          attempted |-> <<>>]

\* handle_branch_updates that finds nothing to update
handle_branch_updates_none(stk, main_branch, fails) == NoRun

handle_branch_updates(stk, main_branch, fails) ==
    IF get_children(stk, main_branch) = <<>>
    THEN NoRun
    ELSE update_branches_with_conflict_handling(stk, main_branch, fails)

\* return_to_branch(target, fallback, deleted): the branch checked out
return_to_branch(git, target, fallback, deleted) ==
    IF target \in git /\ target \notin ToSet(deleted) THEN target
    ELSE IF fallback \in git THEN fallback
    ELSE None

\* pq sync [main_branch] [--no-push]
sync_with_remote(main_branch, skip_push, fetch_ok, merged, confirmed, del_fail, fails, remote) ==
    IF ~fetch_ok
    THEN /\ last' = [op |-> "sync", outcome |-> "fetch_failed"]
         /\ UNCHANGED <<stacks, gitBranches, currentBranch>>
    ELSE \E m \in {handle_merged_branches(stacks, gitBranches, main_branch,
                                          merged, confirmed, del_fail)} :
         \E run \in {handle_branch_updates(m.stacks, main_branch, fails)} :
         LET current_branch == currentBranch
             push    == push_updated(run.updated, remote, skip_push)
             back    == return_to_branch(m.git, current_branch, main_branch,
                                         m.deleted)
             Ran(outcome, ret, returned) ==
                 last' = [op |-> "sync", outcome |-> outcome, start |-> main_branch,
                          fails |-> fails, order |-> run.order,
                          updated |-> run.updated, conflicts |-> run.conflicts,
                          attempted |-> run.attempted, deleted |-> m.deleted,
                          merged_success |-> m.success, ret |-> ret,
                          merged |-> merged, confirmed |-> confirmed,
                          del_fail |-> del_fail, offered |-> m.offered,
                          exit |-> IF push.raised THEN 1 ELSE 0,
                          skip_push |-> skip_push, remote |-> remote,
                          pushes |-> push.pushes,
                          push_phase |-> ~push.raised, returned |-> returned,
                          before |-> stacks, branches_before |-> gitBranches,
                          current_before |-> currentBranch]
         IN  /\ stacks' = m.stacks
             /\ gitBranches' = m.git
             /\ IF ~run.ends
                THEN /\ last' = [op |-> "sync", outcome |-> "diverged"]
                     /\ currentBranch' = main_branch
                ELSE IF push.raised
                THEN /\ Ran("type_error", FALSE, None)
                     /\ currentBranch' = push.checked_out[1]
                ELSE /\ Ran("done", sync_report(run.conflicts).success, back)
                     /\ currentBranch' = IF back = None THEN main_branch ELSE back

Sync ==
    \* one input per distinguishable run: branches that are not children of
    \* the trunk are merged all together or not at all, at most one
    \* `git branch -D` fails, at most one updated branch is on the remote,
    \* a rebase can fail only where it is attempted
    /\ last = Idle
    /\ UNCHANGED procs
    /\ \/ sync_with_remote(MainBranch, FALSE, FALSE, {}, {}, {}, {}, {})
       \/ LET kids   == ToSet(get_child_branches(stacks, MainBranch)) \cap gitBranches
              others == gitBranches \ (kids \cup {MainBranch})
          IN  \E merged_kids \in SUBSET kids, merged_others \in {{}, others} :
              \E confirmed \in SUBSET merged_kids :
              \E del_fail \in {{}} \cup {{b} : b \in confirmed} :
              \E m \in {handle_merged_branches(stacks, gitBranches, MainBranch,
                                               merged_kids \cup merged_others,
                                               confirmed, del_fail)} :
              \E fails \in SUBSET Descendants(m.stacks, MainBranch) :
              \E run \in {handle_branch_updates(m.stacks, MainBranch, fails)} :
                  /\ fails \subseteq ToSet(run.attempted)
                  /\ \/ sync_with_remote(MainBranch, TRUE, TRUE,
                                         merged_kids \cup merged_others, confirmed,
                                         del_fail, fails, {})
                     \/ \E remote \in {{}} \cup {{b} : b \in ToSet(run.updated)} :
                            sync_with_remote(MainBranch, FALSE, TRUE,
                                             merged_kids \cup merged_others,
                                             confirmed, del_fail, fails, remote)

\* the command has ended, the shell prompts for the next one
Prompt ==
    /\ last # Idle
    /\ last' = Idle
    /\ UNCHANGED <<stacks, gitBranches, currentBranch, procs>>

\* ------------------------------------------------------- specifications
Next == New \/ Track \/ Untrack \/ Delete \/ List \/ Switch \/ Prompt

Spec == Init /\ [][Next]_vars

\* A stack built by `pq new`: feature i is created on the trunk or on an
\* earlier feature (bases[i]), then the trunk is checked out again.
RECURSIVE Built(_, _)
Built(bases, k) ==
    IF k = 0
    THEN OtherOnly
    ELSE add_to_stack(Built(bases, k - 1), BranchNames[k], bases[k])

BaseChoices ==
    {bases \in [1..MaxStack -> Branches] :
        \A i \in 1..MaxStack :
            bases[i] = MainBranch \/ \E j \in 1..(i - 1) : bases[i] = BranchNames[j]}

InitForest ==
    /\ \E bases \in BaseChoices : stacks = Built(bases, MaxStack)
    /\ gitBranches = {BranchNames[i] : i \in 1..MaxStack} \cup {MainBranch}
    /\ currentBranch = MainBranch
    /\ last = Idle
    /\ procs = NoProcs

\* the store commands on a built stack
NextForest == Untrack \/ Delete \/ List \/ Switch \/ Prompt

SpecForest == InitForest /\ [][NextForest]_vars

\* update propagation on a built stack, between untrack and switch commands
NextProp == Update \/ Sync \/ Untrack \/ Switch \/ Prompt

SpecProp == InitForest /\ [][NextProp]_vars

\* deletes on a built stack, each retried after a rebase conflict aborted it
NextRetry == Delete \/ DeleteAgain \/ Prompt

SpecRetry == InitForest /\ [][NextRetry]_vars

\* the two commands that delete branches, on a built stack
NextDeletion == Delete \/ Sync \/ Prompt

SpecDeletion == InitForest /\ [][NextDeletion]_vars

\* the two commands that ask before they act, on a built stack
NextConfirm == Delete \/ Update \/ Switch \/ Prompt

SpecConfirm == InitForest /\ [][NextConfirm]_vars

\* -------------------------------------------------------- pull requests
\* What happens to a branch create_pr_for_branch is called for:
\*   created             on the remote, PR confirmed, gh pr create succeeds
\*   pushed_now          not on the remote, push confirmed and successful,
\*                       then as created
\*   push_declined       not on the remote, the push prompt is declined
\*   push_failed         not on the remote, push confirmed, git push fails
\*   base_push_declined  the PR's base is not on the remote, push declined
\*   base_push_failed    the PR's base is not on the remote, its push fails
\*   base_pushed_now     the PR's base is not on the remote, its push is
\*                       confirmed and successful, then as created
\*   no_commits          no commit between the base and the branch
\*   declined            "Create this pull request?" is declined
\*   create_failed       gh pr create fails
FailKinds == {"push_declined", "push_failed", "base_push_declined", "base_push_failed", "no_commits", "declined", "create_failed"}

Kinds == FailKinds \cup {"created", "pushed_now", "base_pushed_now"}

\* gh pr view <branch> succeeds
branch_has_pr_never(has_pr, branch) == FALSE

branch_has_pr(has_pr, branch) == branch \in has_pr

\* the upward walk of find_oldest_branch_without_pr; a walk longer than the
\* number of tracked branches is in a cycle and never returns
RECURSIVE FindOldest(_, _, _, _)
FindOldest(stk, has_pr, branch, steps) ==
    LET parent == get_parent_branch(stk, branch)
    IN  IF steps > Cardinality(Tracked(stk))
        THEN [returns |-> FALSE, branch |-> branch]
        ELSE IF parent = NoParent \/ parent \in TrunkNames
        THEN [returns |-> TRUE, branch |-> branch]
        ELSE IF branch_has_pr(has_pr, parent)
        THEN [returns |-> TRUE, branch |-> branch]
        ELSE FindOldest(stk, has_pr, parent, steps + 1)

\* find_oldest_branch_without_pr starting the run at the target itself
find_oldest_is_target(stk, has_pr, branch) == [returns |-> TRUE, branch |-> branch]

\* find_oldest_branch_without_pr that never asks whether the parent has a PR
RECURSIVE find_oldest_to_root(_, _, _)
find_oldest_to_root(stk, has_pr, branch) ==
    LET parent == get_parent_branch(stk, branch)
    IN  IF parent = NoParent \/ parent \in TrunkNames
        THEN [returns |-> TRUE, branch |-> branch]
        ELSE find_oldest_to_root(stk, has_pr, parent)

find_oldest_branch_without_pr(stk, has_pr, branch) == FindOldest(stk, has_pr, branch, 0)

\* create_pr_for_branch that goes on to gh pr create whatever the pushes gave
create_pr_for_branch_unchecked(branch, parent, kind) ==
    [ok |-> kind \notin {"no_commits", "declined", "create_failed"},
     pushes |-> IF kind \in {"push_failed", "pushed_now"} THEN <<branch>> ELSE <<>>,
     call |-> kind \notin {"no_commits", "declined"},
     checked |-> <<branch>>,
     prompts |-> IF kind \in {"push_declined", "push_failed", "pushed_now"}
                 THEN <<branch>> ELSE <<>>]

\* ensure_branch_pushed(branch): ok is its return value, prompted whether
\* "Would you like to push it now?" was asked, pushed whether git push ran
ensure_branch_pushed(on_remote, push_confirmed, push_ok) ==
    IF on_remote
    THEN [ok |-> TRUE, prompted |-> FALSE, pushed |-> FALSE]
    ELSE IF push_confirmed
    THEN [ok |-> push_ok, prompted |-> TRUE, pushed |-> TRUE]
    ELSE [ok |-> FALSE, prompted |-> TRUE, pushed |-> FALSE]

\* create_pr_for_branch(branch, parent): ok is its return value, checked the
\* branches git ls-remote was asked about, prompts the branches the push
\* prompt was shown for, pushes the git push calls, call whether gh pr
\* create was invoked
create_pr_for_branch(branch, parent, kind) ==
    LET head == ensure_branch_pushed(
                    kind \notin {"push_declined", "push_failed", "pushed_now"},
                    kind # "push_declined", kind # "push_failed")
        base == ensure_branch_pushed(
                    kind \notin {"base_push_declined", "base_push_failed",
                                 "base_pushed_now"},
                    kind # "base_push_declined", kind # "base_push_failed")
        \* the base is looked at only when the branch itself is pushed
        pushes  == (IF head.pushed THEN <<branch>> ELSE <<>>)
                      \o (IF head.ok /\ base.pushed THEN <<parent>> ELSE <<>>)
        prompts == (IF head.prompted THEN <<branch>> ELSE <<>>)
                      \o (IF head.ok /\ base.prompted THEN <<parent>> ELSE <<>>)
        checked == <<branch>> \o (IF head.ok THEN <<parent>> ELSE <<>>)
        Result(ok, call) == [ok |-> ok, pushes |-> pushes, call |-> call,
                             checked |-> checked, prompts |-> prompts]
    IN  IF ~head.ok \/ ~base.ok
        THEN Result(FALSE, FALSE)
        ELSE IF kind = "no_commits"
        THEN Result(FALSE, FALSE)
        ELSE IF kind = "declined"
        THEN Result(FALSE, FALSE)
        ELSE Result(kind # "create_failed", TRUE)

\* is_branch_in_path_to_target(child, branch_name, parent_branch)
RECURSIVE InPath(_, _, _, _, _)
InPath(stk, child, current, parent_branch, steps) ==
    IF current = NoParent \/ current = parent_branch
          \/ steps > Cardinality(Tracked(stk))
    THEN FALSE
    ELSE IF current = child
    THEN TRUE
    ELSE InPath(stk, child, get_parent_branch(stk, current), parent_branch, steps + 1)

\* is_branch_in_path_to_target that takes every child to lead to the target
is_branch_in_path_always(stk, child, branch_name, parent_branch) == TRUE

is_branch_in_path_to_target(stk, child, branch_name, parent_branch) == InPath(stk, child, branch_name, parent_branch, 0)

\* process_branch_for_pr(branch, target_branch) and its loop over the
\* children.  log is the sequence of branches processed so far, each with
\* the PR base, the branches that had a PR when it was reached, and what
\* was done for it; depth bounds the recursion on a cyclic store.
RECURSIVE ProcessPR(_, _, _, _, _, _, _)
RECURSIVE ProcessChildren(_, _, _, _, _, _, _, _, _)
ProcessPR(stk, has_pr, fate, branch, target_branch, log, depth) ==
    IF depth > Cardinality(Tracked(stk)) + 1
    THEN [log |-> log, returns |-> FALSE]
    ELSE
    LET prs    == has_pr \cup {log[i].branch : i \in {j \in 1..Len(log) : log[j].ok}}
        had_pr == branch_has_pr(has_pr, branch)
        parent == IF get_parent_branch(stk, branch) = NoParent
                  THEN "main"
                  ELSE get_parent_branch(stk, branch)
        res    == IF had_pr
                  THEN [ok |-> TRUE, pushes |-> <<>>, call |-> FALSE,
                        checked |-> <<>>, prompts |-> <<>>]
                  ELSE create_pr_for_branch(branch, parent, fate[branch])
        entry  == [branch |-> branch, base |-> parent, prs |-> prs,
                   attempted |-> ~had_pr, pushes |-> res.pushes,
                   checked |-> res.checked, prompts |-> res.prompts,
                   call |-> res.call, ok |-> res.ok]
    IN  IF res.ok
        THEN ProcessChildren(stk, has_pr, fate, branch, target_branch,
                             get_child_branches(stk, branch), 1,
                             Append(log, entry), depth)
        ELSE [log |-> Append(log, entry), returns |-> TRUE]

ProcessChildren(stk, has_pr, fate, branch, target_branch, children, i, log, depth) ==
    IF i > Len(children)
    THEN [log |-> log, returns |-> TRUE]
    ELSE IF is_branch_in_path_to_target(stk, children[i], target_branch, branch)
               \/ children[i] = target_branch
    THEN LET sub == ProcessPR(stk, has_pr, fate, children[i], target_branch,
                              log, depth + 1)
         IN  IF sub.returns
             THEN ProcessChildren(stk, has_pr, fate, branch, target_branch,
                                  children, i + 1, sub.log, depth)
             ELSE sub
    ELSE ProcessChildren(stk, has_pr, fate, branch, target_branch, children,
                         i + 1, log, depth)

process_branch_for_pr(stk, has_pr, fate, branch, target_branch) == ProcessPR(stk, has_pr, fate, branch, target_branch, <<>>, 0)

\* the kinds of the run: `marked` gets `kind`, every other branch "created"
Fate(marked, kind) == [b \in Branches |-> IF b = marked THEN kind ELSE "created"]

\* pq pr [branch_name].  gh pr view is asked once about each parent on the
\* upward walk and once about each branch processed, and its answer is not
\* under the tool's control: walk_pr are the branches it reports a PR for
\* during the walk, has_pr those it reports a PR for during the processing.
create_pull_requests(branch_name, gh_installed, walk_pr, has_pr, marked, kind) ==
    LET target == IF branch_name = None THEN currentBranch ELSE branch_name
        Ended(outcome) == last' = [op |-> "pr", outcome |-> outcome,
                                   before |-> stacks]
    IN  /\ UNCHANGED <<stacks, gitBranches, currentBranch>>
        /\ IF ~gh_installed
           THEN Ended("no_gh")
           ELSE IF target \notin gitBranches
           THEN Ended("no_branch")
           ELSE \E oldest \in {find_oldest_branch_without_pr(stacks, walk_pr, target)} :
                IF ~oldest.returns
                THEN Ended("diverged")
                ELSE \E run \in {process_branch_for_pr(stacks, has_pr, Fate(marked, kind),
                                                       oldest.branch, target)} :
                     IF ~run.returns
                     THEN Ended("diverged")
                     ELSE last' = [op |-> "pr", outcome |-> "done", target |-> target,
                                   walk_pr |-> walk_pr, has_pr |-> has_pr,
                                   marked |-> marked, kind |-> kind,
                                   oldest |-> oldest.branch, log |-> run.log,
                                   before |-> stacks]

PR ==
    /\ last = Idle
    /\ UNCHANGED procs
    /\ \E branch_name \in Branches \cup {None} :
          \* one input per distinguishable run: only a branch the run reaches
          \* without an existing PR is given a kind of its own
          \/ create_pull_requests(branch_name, FALSE, {}, {}, None, "created")
          \/ \E target \in {IF branch_name = None THEN currentBranch ELSE branch_name} :
             \* the walk asks about ancestors of the target only
             \E walk_pr \in SUBSET (Tracked(stacks) \cap AncestorsOf(stacks, target)) :
             \E has_pr \in SUBSET Tracked(stacks) :
             \E plain \in {process_branch_for_pr(stacks, has_pr, Fate(None, "created"),
                              find_oldest_branch_without_pr(stacks, walk_pr, target).branch,
                              target)} :
                \/ create_pull_requests(branch_name, TRUE, walk_pr, has_pr, None, "created")
                \/ \E i \in 1..Len(plain.log), kind \in Kinds \ {"created"} :
                      /\ plain.log[i].attempted
                      /\ create_pull_requests(branch_name, TRUE, walk_pr, has_pr,
                                              plain.log[i].branch, kind)

NextPR == PR \/ Switch \/ Prompt

SpecPR == InitForest /\ [][NextPR]_vars

\* the two commands that walk the stack without writing it, on a built stack
NextFrame == Update \/ PR \/ Switch \/ Prompt

SpecFrame == InitForest /\ [][NextFrame]_vars

\* ---------------------------------------------------------------- rename
\* A record of the stack file may carry a second key next to "parent": the
\* path of the worktree the branch is checked out in.
WorktreePath == "/worktrees/wt"

\* the worktree path recorded for a branch, None when there is none
worktree_of(stk, branch) ==
    LET recs == RepoStack(stk)
    IN  IF branch \notin ToSet(Names(recs))
        THEN None
        ELSE LET rec == recs[IndexOf(Names(recs), branch)]
             IN  IF "worktree" \in DOMAIN rec THEN rec.worktree ELSE None

\* the stack file with the worktree path written into the record of `branch`
with_worktree(stk, branch, path) ==
    [stk EXCEPT ![RepoId] =
        [i \in 1..Len(stk[RepoId]) |->
            IF stk[RepoId][i].name = branch
            THEN [name |-> branch, parent |-> stk[RepoId][i].parent, worktree |-> path]
            ELSE stk[RepoId][i]]]

\* the record `rec` under another key / with another parent, every other
\* key of the record kept
Rekeyed(rec, name) == [k \in DOMAIN rec |-> IF k = "name" THEN name ELSE rec[k]]

Reparented(rec, parent) == [k \in DOMAIN rec |-> IF k = "parent" THEN parent ELSE rec[k]]

\* Stacks.rename_branch that leaves the children's parent values alone
stack_rename_branch_keep_children(stk, old_name, new_name) ==
    IF RepoId \notin DOMAIN stk \/ old_name \notin Tracked(stk) \/ new_name \in Tracked(stk)
    THEN [ret |-> FALSE, stacks |-> stk]
    ELSE LET recs    == stk[RepoId]
             old_rec == recs[IndexOf(Names(recs), old_name)]
             Keep(r) == r.name # old_name
         IN  [ret |-> TRUE,
              stacks |-> [stk EXCEPT ![RepoId] =
                             Append(SelectSeq(recs, Keep), Rekeyed(old_rec, new_name))]]

\* Stacks.rename_branch(old_name, new_name): fails when the new name has a
\* record or the old one has none; otherwise the old record's values go
\* under the new key, the old key is deleted, and every child of the old
\* name gets the new name as parent
stack_rename_branch(stk, old_name, new_name) ==
    IF RepoId \notin DOMAIN stk \/ old_name \notin Tracked(stk) \/ new_name \in Tracked(stk)
    THEN [ret |-> FALSE, stacks |-> stk]
    ELSE LET recs    == stk[RepoId]
             old_rec == recs[IndexOf(Names(recs), old_name)]
             Keep(r) == r.name # old_name
             rest    == SelectSeq(recs, Keep)
         IN  [ret |-> TRUE,
              stacks |-> [stk EXCEPT ![RepoId] =
                             Append([i \in 1..Len(rest) |->
                                        IF rest[i].parent = old_name
                                        THEN Reparented(rest[i], new_name)
                                        ELSE rest[i]],
                                    Rekeyed(old_rec, new_name))]]

\* git.rename_branch(old_name, new_name): ret is its return value, git and
\* current the local branches and the checkout it leaves
git_rename_branch(git, current_branch, old_name, new_name, checkout_ok, rename_ok) ==
    IF new_name \in git
    THEN [ret |-> FALSE, why |-> "exists", git |-> git, current |-> current_branch]
    ELSE IF old_name \notin git
    THEN [ret |-> FALSE, why |-> "no_branch", git |-> git, current |-> current_branch]
    ELSE IF current_branch # old_name /\ ~checkout_ok
    THEN [ret |-> FALSE, why |-> "checkout_failed", git |-> git, current |-> current_branch]
    ELSE IF ~rename_ok
    THEN [ret |-> FALSE, why |-> "git_failed", git |-> git, current |-> old_name]
    ELSE [ret |-> TRUE, why |-> "renamed", git |-> (git \ {old_name}) \cup {new_name},
          current |-> new_name]

\* pq rename [old_name] new_name: the git branch is renamed, then the record
\* of a tracked branch
rename(old_name, new_name, checkout_ok, rename_ok) ==
    LET old  == IF old_name = None THEN currentBranch ELSE old_name
        g    == git_rename_branch(gitBranches, currentBranch, old, new_name,
                                  checkout_ok, rename_ok)
        st   == stack_rename_branch(stacks, old, new_name)
        Done(outcome, exit, was_tracked) ==
            last' = [op |-> "rename", old |-> old, new |-> new_name,
                     outcome |-> outcome, exit |-> exit, was_tracked |-> was_tracked,
                     before |-> stacks, branches_before |-> gitBranches,
                     current_before |-> currentBranch]
    IN  /\ gitBranches' = g.git
        /\ currentBranch' = g.current
        /\ IF ~g.ret
           THEN /\ Done(g.why, 1, old \in Tracked(stacks))
                /\ UNCHANGED stacks
           ELSE /\ Done("renamed", 0, old \in Tracked(stacks))
                /\ stacks' = st.stacks

\* the names rename may give: one more than the stack has branches
RenameNames == {BranchNames[i] : i \in 1..(MaxStack + 1)}

Rename ==
    /\ last = Idle
    /\ UNCHANGED procs
    /\ \E old_name \in RenameNames \cup {MainBranch, None},
          new_name \in RenameNames \cup {MainBranch},
          checkout_ok \in BOOLEAN, rename_ok \in BOOLEAN :
          \* one input per distinguishable run
          /\ LET old == IF old_name = None THEN currentBranch ELSE old_name
             IN  /\ (new_name \in gitBranches \/ old \notin gitBranches)
                        => checkout_ok /\ rename_ok
                 /\ old = currentBranch => checkout_ok
                 /\ ~checkout_ok => rename_ok
          /\ rename(old_name, new_name, checkout_ok, rename_ok)

\* a built stack in which at most one branch is checked out in a worktree,
\* with any of its branches checked out in the main working tree
InitRename ==
    /\ \E bases \in BaseChoices, w \in Features \cup {None} :
          stacks = IF w = None
                   THEN Built(bases, MaxStack)
                   ELSE with_worktree(Built(bases, MaxStack), w, WorktreePath)
    /\ gitBranches = {BranchNames[i] : i \in 1..MaxStack} \cup {MainBranch}
    /\ currentBranch \in gitBranches
    /\ last = Idle
    /\ procs = NoProcs

\* one rename of a built stack
NextRename == Rename

SpecRename == InitRename /\ [][NextRename]_vars

\* ------------------------------------------- the update of one branch
\* is_branch_worktree(branch): the branch's record carries a worktree path
is_branch_worktree(stk, branch) == worktree_of(stk, branch) # None

\* the per-branch update that rebases in the worktree without reading its HEAD
update_branch_unverified(branch, parent, is_worktree, head, checkout_ok, rebase_ok, abort_on_conflict) ==
    LET rebase == <<"rebase", branch, parent>>
        abort  == <<"rebase --abort", branch, None>>
    IN  IF ~is_worktree /\ ~checkout_ok
        THEN [success |-> FALSE, error |-> "Failed to checkout",
              git |-> <<<<"checkout", branch, None>>>>, checked_out |-> FALSE]
        ELSE LET pre == IF is_worktree THEN <<>> ELSE <<<<"checkout", branch, None>>>>
             IN  IF rebase_ok
                 THEN [success |-> TRUE, error |-> None,
                       git |-> Append(pre, rebase), checked_out |-> ~is_worktree]
                 ELSE IF abort_on_conflict
                 THEN [success |-> FALSE, error |-> "conflict detected",
                       git |-> pre \o <<rebase, abort>>, checked_out |-> ~is_worktree]
                 ELSE [success |-> FALSE, error |-> "resolve conflicts",
                       git |-> Append(pre, rebase), checked_out |-> ~is_worktree]

\* update_branch_with_conflict_detection(branch, parent, abort_on_conflict):
\* the git commands it issues, each with the branch whose working tree it
\* runs in, and the (success, error) pair it returns.  `head` is what
\* rev-parse --abbrev-ref HEAD answers in the branch's worktree.
update_branch_with_conflict_detection(branch, parent, is_worktree, head, checkout_ok, rebase_ok, abort_on_conflict) ==
    LET revparse == <<"rev-parse HEAD", branch, None>>
        checkout == <<"checkout", branch, None>>
        rebase   == <<"rebase", branch, parent>>
        abort    == <<"rebase --abort", branch, None>>
    IN  IF is_worktree /\ head # branch
        THEN [success |-> FALSE, error |-> "not on the correct branch",
              git |-> <<revparse>>, checked_out |-> FALSE]
        ELSE IF ~is_worktree /\ ~checkout_ok
        THEN [success |-> FALSE, error |-> "Failed to checkout",
              git |-> <<checkout>>, checked_out |-> FALSE]
        ELSE LET pre == IF is_worktree THEN <<revparse>> ELSE <<checkout>>
             IN  IF rebase_ok
                 THEN [success |-> TRUE, error |-> None,
                       git |-> Append(pre, rebase), checked_out |-> ~is_worktree]
                 ELSE IF abort_on_conflict
                 THEN [success |-> FALSE, error |-> "conflict detected",
                       git |-> pre \o <<rebase, abort>>, checked_out |-> ~is_worktree]
                 ELSE [success |-> FALSE, error |-> "resolve conflicts",
                       git |-> Append(pre, rebase), checked_out |-> ~is_worktree]

\* one call of the per-branch update on a tracked branch and its parent
UpdateBranch ==
    /\ last = Idle
    /\ UNCHANGED <<stacks, gitBranches, procs>>
    /\ \E branch \in Tracked(stacks), head \in gitBranches,
          checkout_ok \in BOOLEAN, rebase_ok \in BOOLEAN,
          abort_on_conflict \in BOOLEAN :
          LET is_worktree == is_branch_worktree(stacks, branch)
              parent      == get_parent_branch(stacks, branch)
              r == update_branch_with_conflict_detection(branch, parent,
                       is_worktree, head, checkout_ok, rebase_ok, abort_on_conflict)
          IN  \* one input per distinguishable run
              /\ is_worktree => checkout_ok
              /\ ~is_worktree => head = branch
              /\ (~checkout_ok \/ head # branch) => rebase_ok
              /\ rebase_ok => abort_on_conflict
              /\ currentBranch' = IF r.checked_out THEN branch ELSE currentBranch
              /\ last' = [op |-> "update_branch", branch |-> branch,
                          parent |-> parent, is_worktree |-> is_worktree,
                          head |-> head, success |-> r.success,
                          error |-> r.error, git |-> r.git,
                          current_before |-> currentBranch]

NextWorktree == UpdateBranch \/ Prompt

SpecWorktree == InitRename /\ [][NextWorktree]_vars

\* ------------------------------------------------------ the store alone
\* The four functions of utils/config.py called one at a time on files the
\* tool can meet: the file init_panqake wrote, a file holding another
\* repository's stack, and a file json.load rejects.
StoreNames == NewNames \cup {MainBranch}

InitStore ==
    /\ stacks \in {EmptyFile, OtherOnly, Corrupt}
    /\ gitBranches = {MainBranch}
    /\ currentBranch = MainBranch
    /\ last = Idle
    /\ procs = NoProcs

StoreAdd ==
    /\ last = Idle
    /\ \E branch \in NewNames, parent \in StoreNames \cup {NoParent} :
          /\ stacks' = add_to_stack(stacks, branch, parent)
          /\ last' = [op |-> "add_to_stack", branch |-> branch, parent |-> parent,
                      parsed |-> json_load(stacks).ok]
    /\ UNCHANGED <<gitBranches, currentBranch, procs>>

StoreRemove ==
    /\ last = Idle
    /\ \E branch \in StoreNames :
          LET res == remove_from_stack(stacks, branch)
          IN  /\ stacks' = res.stacks
              /\ last' = [op |-> "remove_from_stack", branch |-> branch,
                          ret |-> res.ret, parsed |-> json_load(stacks).ok]
    /\ UNCHANGED <<gitBranches, currentBranch, procs>>

StoreGetParent ==
    /\ last = Idle
    /\ \E branch \in StoreNames :
          last' = [op |-> "get_parent_branch", branch |-> branch,
                   ret |-> get_parent_branch(stacks, branch),
                   parsed |-> json_load(stacks).ok]
    /\ UNCHANGED <<stacks, gitBranches, currentBranch, procs>>

StoreGetChildren ==
    /\ last = Idle
    /\ \E branch \in StoreNames :
          last' = [op |-> "get_child_branches", branch |-> branch,
                   ret |-> get_child_branches(stacks, branch),
                   parsed |-> json_load(stacks).ok]
    /\ UNCHANGED <<stacks, gitBranches, currentBranch, procs>>

NextStore == StoreAdd \/ StoreRemove \/ StoreGetParent \/ StoreGetChildren \/ Prompt

SpecStore == InitStore /\ [][NextStore]_vars

\* ------------------------------------------------ concurrent processes
\* Two panqake processes share the stack file.  Each runs one store call:
\* it reads the whole file (json.load), changes its copy, opens the file
\* for writing, which truncates it, and dumps its copy.
Pids == {1, 2}

\* the store calls a process may run
Calls ==
    {c \in [op : {"add_to_stack"}, repo : {RepoId, OtherRepo}, branch : NewNames,
             parent : NewNames \cup {MainBranch}] : c.parent # c.branch}
    \cup {[op |-> "remove_from_stack", repo |-> RepoId, branch |-> b, parent |-> NoParent] :
        b \in NewNames}

\* the file the processes start from: `pq new a` has run in this repository
FileConc == add_to_stack(OtherOnly, BranchNames[1], MainBranch)

\* the copy a process holds after it read `file` and applied its call
\* (add_to_stack lines 69-80, remove_from_stack lines 103-121)
conc_pending_overwrite(call, file) ==
    IF call.op = "add_to_stack"
    THEN added(call.repo, [ok |-> FALSE, value |-> EmptyFile], call.branch, call.parent)
    ELSE remove_from_stack(file, call.branch).stacks

conc_pending(call, file) ==
    IF call.op = "add_to_stack"
    THEN added(call.repo, json_load(file), call.branch, call.parent)
    ELSE remove_from_stack(file, call.branch).stacks

InitConc ==
    /\ stacks = FileConc
    /\ gitBranches = {BranchNames[1], MainBranch}
    /\ currentBranch = MainBranch
    /\ last = [op |-> "concurrent", initial |-> FileConc, dumped |-> <<>>]
    /\ procs \in [Pids -> {[call |-> c, pc |-> "start", snap |-> EmptyFile,
                            pending |-> EmptyFile, clobbered |-> FALSE,
                            ret |-> FALSE] : c \in Calls}]

\* json.load of the whole file; remove_from_stack returns False here when
\* the file is unparseable or holds no record of the branch
ConcRead(p) ==
    /\ procs[p].pc = "start"
    /\ IF procs[p].call.op = "remove_from_stack"
          /\ ~remove_from_stack(stacks, procs[p].call.branch).ret
       THEN procs' = [procs EXCEPT ![p].pc = "done", ![p].snap = stacks,
                                   ![p].ret = FALSE]
       ELSE procs' = [procs EXCEPT ![p].pc = "read", ![p].snap = stacks,
                                   ![p].pending = conc_pending(procs[p].call, stacks)]
    /\ UNCHANGED <<stacks, gitBranches, currentBranch, last>>

\* open(STACK_FILE, "w"): the file is empty until the dump
ConcOpen(p) ==
    /\ procs[p].pc = "read"
    /\ stacks' = Corrupt
    /\ procs' = [procs EXCEPT ![p].pc = "opened"]
    /\ UNCHANGED <<gitBranches, currentBranch, last>>

\* json.dump and close.  A process that dumps through a handle it opened
\* before another process dumped overlays that process's text: the file
\* holds its own mapping or, when its text is the shorter one, a mixture
\* json.load rejects.
ConcDump(p) ==
    /\ procs[p].pc = "opened"
    /\ \/ stacks' = procs[p].pending
       \/ procs[p].clobbered /\ stacks' = Corrupt
    /\ procs' = [q \in Pids |->
                    IF q = p
                    THEN [procs[q] EXCEPT !.pc = "done", !.ret = TRUE]
                    ELSE IF procs[q].pc = "opened"
                    THEN [procs[q] EXCEPT !.clobbered = TRUE]
                    ELSE procs[q]]
    /\ last' = [last EXCEPT !.dumped = Append(@, p)]
    /\ UNCHANGED <<gitBranches, currentBranch>>

NextConc == \E p \in Pids : ConcRead(p) \/ ConcOpen(p) \/ ConcDump(p)

SpecConc == InitConc /\ [][NextConc]_vars

\* ------------------------------------------------- propagation properties
\* the last command ran the propagation loops to their end
PropRan ==
    /\ last.op \in {"update", "sync"}
    /\ last.outcome \in {"done", "type_error", "return_failed"}

\* C1: in a propagation run every branch of the work list whose immediate
\* parent is in the conflict list is never handed to the update operation
\* and is itself in the conflict list; hence every proper descendant of a
\* conflicting branch ends in the conflict list without being attempted.
C1_CascadingSkip ==
    PropRan =>
        /\ \A i \in 1..Len(last.order) :
              last.order[i][2] \in ToSet(last.conflicts) =>
                  /\ last.order[i][1] \notin ToSet(last.attempted)
                  /\ last.order[i][1] \in ToSet(last.conflicts)
        /\ \A b \in ToSet(last.conflicts) :
              \A d \in Descendants(stacks, b) \ {b} :
                  /\ d \in ToSet(last.conflicts)
                  /\ d \notin ToSet(last.attempted)

\* a failed branch whose child and grandchild were both skipped
C1_Witness ==
    /\ PropRan
    /\ \E i, j \in 1..Len(last.order) :
          /\ last.order[i][1] \in last.fails
          /\ last.order[i][1] \in ToSet(last.attempted)
          /\ last.order[j][2] # last.order[i][1]
          /\ last.order[j][2] \in ToSet(last.conflicts)
          /\ last.order[j][2] \notin ToSet(last.attempted)
          /\ last.order[j][1] \in ToSet(last.conflicts)
          /\ last.order[j][1] \notin ToSet(last.attempted)

\* C2: over an acyclic stack every proper descendant of the starting branch
\* ends in exactly one of the updated list and the conflict list, exactly
\* once; the starting branch is in neither; the update operation is invoked
\* at most once per branch.
C2_Partition ==
    PropRan /\ Acyclic(stacks) =>
        LET both == last.updated \o last.conflicts
        IN  /\ NoDup(both)
            /\ ToSet(both) = Descendants(stacks, last.start) \ {last.start}
            /\ last.start \notin ToSet(both)
            /\ NoDup(last.attempted)

\* a run over at least three descendants with both lists non-empty and a
\* skipped branch
C2_Witness ==
    /\ PropRan
    /\ Acyclic(stacks)
    /\ Len(last.order) >= 3
    /\ last.updated # <<>>
    /\ Len(last.conflicts) > Len(last.attempted) - Len(last.updated)

\* C3: in the work list every pair is (branch, recorded parent of branch),
\* and a branch whose parent is not the starting branch comes after the
\* pair of its parent.
C3_ParentFirst ==
    PropRan =>
        \A i \in 1..Len(last.order) :
            /\ last.order[i][2] = get_parent_branch(stacks, last.order[i][1])
            /\ last.order[i][2] # last.start =>
                  \E j \in 1..(i - 1) : last.order[j][1] = last.order[i][2]

\* a work list holding two siblings and a child of the first sibling
C3_Witness ==
    /\ PropRan
    /\ \E i, j, k \in 1..Len(last.order) :
          /\ i < j /\ j < k
          /\ last.order[i][2] = last.order[j][2]
          /\ last.order[k][2] = last.order[i][1]

\* C4: once a conflict is recorded, every later branch of the work list
\* none of whose ancestors below the starting branch is in the conflict
\* list is still handed to the update operation.
C4_SiblingsContinue ==
    PropRan =>
        \A i \in 1..Len(last.order) :
            LET child == last.order[i][1]
                above == (AncestorsOf(stacks, child) \ {child})
                            \cap (Descendants(stacks, last.start) \ {last.start})
            IN  above \cap ToSet(last.conflicts) = {} =>
                    child \in ToSet(last.attempted)

\* a branch updated after an earlier branch of the work list conflicted
C4_Witness ==
    /\ PropRan
    /\ \E i, j \in 1..Len(last.order) :
          /\ i < j
          /\ last.order[i][1] \in ToSet(last.conflicts)
          /\ last.order[j][1] \in ToSet(last.updated)

\* the work list is a linear chain hanging off the starting branch
IsChain(order, start) ==
    /\ order # <<>>
    /\ order[1][2] = start
    /\ \A i \in 2..Len(order) : order[i][2] = order[i - 1][1]

\* C5: on a linear chain start <- b1 <- ... <- bn where the update fails
\* exactly at bk, the updated list is b1..b(k-1) and the conflict list is
\* bk..bn, both in chain order.
C5_ChainSplit ==
    PropRan /\ IsChain(last.order, last.start) =>
        \A k \in 1..Len(last.order) :
            last.fails = {last.order[k][1]} =>
                /\ last.updated = Firsts(SubSeq(last.order, 1, k - 1))
                /\ last.conflicts = Firsts(SubSeq(last.order, k, Len(last.order)))

\* a chain of three failing at its second branch
C5_Witness ==
    /\ PropRan
    /\ IsChain(last.order, last.start)
    /\ Len(last.order) >= 3
    /\ last.fails = {last.order[2][1]}
    /\ Len(last.updated) = 1
    /\ Len(last.conflicts) = Len(last.order) - 1

\* ------------------------------------------------------- store properties
\* C6: after any sequence of stack writes no branch is reachable from
\* itself by following parent links.
C6_NoCycle == Acyclic(stacks)

\* C7: every find_stack_root call returns, within |tracked| parent edges,
\* a branch that has no recorded parent.
C7_RootFound ==
    last.op = "list" /\ last.outcome # "no_branch" =>
        /\ last.outcome = "printed"
        /\ last.steps <= Cardinality(Tracked(stacks))
        /\ get_parent_branch(stacks, last.root) = NoParent

\* C8: when remove_from_stack(p) returns True, every branch whose parent
\* was p has p's former parent as parent, p has no record, and every other
\* record, of this repository and of the others, is unchanged.
C8_RemoveRelinks ==
    [][last = Idle /\ last'.op = "untrack" /\ last'.ret =>
        LET p == last'.branch
            g == get_parent_branch(stacks, p)
            IsOther(b) == b # p
        IN  /\ p \in Tracked(stacks)
            /\ p \notin Tracked(stacks')
            /\ Names(RepoStack(stacks')) = SelectSeq(Names(RepoStack(stacks)), IsOther)
            /\ \A b \in Tracked(stacks') :
                  get_parent_branch(stacks', b) =
                      IF get_parent_branch(stacks, b) = p
                      THEN g
                      ELSE get_parent_branch(stacks, b)
            /\ DOMAIN stacks' = DOMAIN stacks
            /\ \A r \in DOMAIN stacks \ {RepoId} : stacks'[r] = stacks[r]]_vars

\* a removed branch with a recorded parent and two children
C8_Witness ==
    /\ last.op = "untrack"
    /\ last.ret
    /\ last.parent # NoParent
    /\ Len(last.relinked) >= 2
    /\ \A i \in 1..Len(last.relinked) :
          get_parent_branch(stacks, last.relinked[i]) = last.parent

\* C9: remove_from_stack of a name without a record returns False and
\* leaves the whole persisted mapping unchanged.
C9_RemoveAbsent ==
    [][last = Idle /\ last'.op = "untrack" /\ last'.branch \notin Tracked(stacks) =>
        /\ ~last'.ret
        /\ stacks' = stacks]_vars

\* an absent name removed from a store that holds records of this
\* repository and of another one
C9_Witness ==
    /\ last.op = "untrack"
    /\ ~last.ret
    /\ Tracked(stacks) # {}
    /\ OtherRepo \in DOMAIN stacks

\* C10: when delete_branch(b) succeeds, every former child of b has b's
\* former parent as parent, b has no stack record, and the git branch b
\* is gone.
C10_DeleteRelinks ==
    [][last = Idle /\ last'.op = "delete" /\ last'.outcome = "success" =>
        LET b == last'.branch
            g == get_parent_branch(stacks, b)
        IN  /\ \A c \in ToSet(get_child_branches(stacks, b)) :
                  /\ c \in Tracked(stacks')
                  /\ get_parent_branch(stacks', c) = g
            /\ b \notin Tracked(stacks')
            /\ b \in gitBranches
            /\ b \notin gitBranches']_vars

\* ------------------------------------------------- concurrency properties
AllDone == DOMAIN procs = Pids /\ \A p \in Pids : procs[p].pc = "done"

\* the file holds the record branch -> parent under repository repo_id
RecordIn(repo_id, file, branch, parent) ==
    /\ file # Corrupt
    /\ repo_id \in DOMAIN file
    /\ \E i \in 1..Len(file[repo_id]) :
          file[repo_id][i] = [name |-> branch, parent |-> parent]

\* C11: when two processes run add_to_stack concurrently for two different
\* repositories, both repositories' new records are in the file once both
\* have finished, under every interleaving of their reads and writes.
C11_BothPresent ==
    (/\ AllDone
     /\ \A p \in Pids : procs[p].call.op = "add_to_stack"
     /\ procs[1].call.repo # procs[2].call.repo)
    => \A p \in Pids :
          RecordIn(procs[p].call.repo, stacks, procs[p].call.branch, procs[p].call.parent)

\* what one call alone makes of a file
Effect(call, file) ==
    IF call.op = "add_to_stack"
    THEN added(call.repo, json_load(file), call.branch, call.parent)
    ELSE remove_from_stack(file, call.branch).stacks

\* both processes read the initial file and both wrote and returned normally
Overlapped ==
    /\ AllDone
    /\ Len(last.dumped) = 2
    /\ \A p \in Pids : procs[p].ret /\ procs[p].snap = last.initial

\* C12: two processes mutating the same repository's stack can interleave
\* so that both return normally and one update is lost: whenever both read
\* before either writes, the final file is what the last writer alone makes
\* of the initial file (or a mixture json.load rejects), with no trace of
\* the first writer's call.
C12_LostUpdate ==
    (Overlapped /\ procs[1].call.repo = procs[2].call.repo)
    => \/ stacks = Effect(procs[last.dumped[2]].call, last.initial)
       \/ stacks = Corrupt

\* both processes added a branch to the same repository, both returned
\* normally, and the branch of one of them is not in the parseable file
C12_Witness ==
    /\ Overlapped
    /\ stacks # Corrupt
    /\ \A p \in Pids : procs[p].call.op = "add_to_stack" /\ procs[p].call.repo = RepoId
    /\ procs[1].call.branch # procs[2].call.branch
    /\ \E p \in Pids :
          ~RecordIn(RepoId, stacks, procs[p].call.branch, procs[p].call.parent)

\* ------------------------------------------------- store call properties
\* C13: in a single process add_to_stack and remove_from_stack leave the
\* mapping of every other repository of a parseable file unchanged, and
\* add_to_stack(b, p) leaves every other record of its own repository
\* unchanged.
C13_Frame ==
    [][last = Idle /\ stacks # Corrupt
          /\ last'.op \in {"add_to_stack", "remove_from_stack"} =>
        LET IsOther(b) == b # last'.branch
        IN  /\ DOMAIN stacks' \ {RepoId} = DOMAIN stacks \ {RepoId}
            /\ \A r \in DOMAIN stacks \ {RepoId} : stacks'[r] = stacks[r]
            /\ last'.op = "add_to_stack" =>
                  /\ Tracked(stacks') = Tracked(stacks) \cup {last'.branch}
                  /\ SelectSeq(Names(RepoStack(stacks')), IsOther)
                        = SelectSeq(Names(RepoStack(stacks)), IsOther)
                  /\ \A c \in Tracked(stacks) \ {last'.branch} :
                        get_parent_branch(stacks', c) = get_parent_branch(stacks, c)]_vars

\* a record added next to another record, with another repository's stack
\* in the file
C13_Witness ==
    /\ last.op = "add_to_stack"
    /\ last.parsed
    /\ OtherRepo \in DOMAIN stacks
    /\ stacks[OtherRepo] # <<>>
    /\ Tracked(stacks) \ {last.branch} # {}

\* C14: after add_to_stack(b, p), get_parent_branch(b) is p and
\* get_child_branches(p) contains b; the reads leave the file as it is and
\* the file parses to itself; writing the same record again leaves the
\* store unchanged.
C14_AddThenRead ==
    [][last = Idle =>
        /\ last'.op = "add_to_stack" =>
              /\ get_parent_branch(stacks', last'.branch) = last'.parent
              /\ last'.branch \in ToSet(get_child_branches(stacks', last'.parent))
              /\ json_load(stacks').ok
              /\ json_load(stacks').value = stacks'
              /\ add_to_stack(stacks', last'.branch, last'.parent) = stacks'
        /\ last'.op \in {"get_parent_branch", "get_child_branches"} =>
              stacks' = stacks]_vars

\* a tracked branch given a tracked parent next to other records
C14_Witness ==
    /\ last.op = "add_to_stack"
    /\ last.parent \in Tracked(stacks)
    /\ last.parent # last.branch
    /\ get_parent_branch(stacks, last.branch) = last.parent
    /\ last.branch \in ToSet(get_child_branches(stacks, last.parent))

C16_UntrackedEmpty ==
    last.op \in {"get_parent_branch", "get_child_branches"}
        /\ last.branch \notin Tracked(stacks) =>
            /\ last.op = "get_parent_branch" => last.ret = NoParent
            /\ last.op = "get_child_branches" => last.ret = <<>>

\* C16: for a name without a record get_parent_branch returns the empty
\* parent, and get_child_branches returns, once each, the tracked branches
\* whose recorded parent is that name: the empty list exactly when no
\* record names it as parent.
C16_UntrackedQueries ==
    last.op \in {"get_parent_branch", "get_child_branches"}
        /\ last.branch \notin Tracked(stacks) =>
            /\ last.op = "get_parent_branch" => last.ret = NoParent
            /\ last.op = "get_child_branches" =>
                  /\ NoDup(last.ret)
                  /\ ToSet(last.ret) = {c \in Tracked(stacks) :
                                          get_parent_branch(stacks, c) = last.branch}

\* the children of the untracked trunk were asked for and there are some
C16_Witness ==
    /\ last.op = "get_child_branches"
    /\ last.branch \notin Tracked(stacks)
    /\ last.ret # <<>>

\* ------------------------------------------------ pull request properties
\* the last command was `pq pr` and ran to its end
PRRan == last.op = "pr" /\ last.outcome = "done"

\* the kind the run gave to a branch
KindOf(branch) == IF branch = last.marked THEN last.kind ELSE "created"

\* C17: if the push of a branch on the path is declined or fails, no
\* gh pr create call is made for that branch or for any branch further along
\* the path toward the target.
C17_NoCreateAfterPush ==
    PRRan =>
        \A i \in 1..Len(last.log) :
            (last.log[i].attempted
                /\ KindOf(last.log[i].branch) \in {"push_declined", "push_failed"}) =>
                /\ ~last.log[i].ok
                /\ \A j \in 1..Len(last.log) :
                      last.log[j].call =>
                          last.log[j].branch \notin
                              ({last.log[i].branch} \cup Descendants(stacks, last.log[i].branch))

\* a PR was created for the bottom branch, the push of the next branch was
\* declined or failed, and the target lies further up
C17_Witness ==
    /\ PRRan
    /\ Len(last.log) = 2
    /\ last.log[1].call /\ last.log[1].ok
    /\ last.log[2].attempted
    /\ KindOf(last.log[2].branch) \in {"push_declined", "push_failed"}
    /\ last.target \in Descendants(stacks, last.log[2].branch) \ {last.log[2].branch}

\* C18: create_pull_requests works bottom-up: create_pr_for_branch is called
\* for a branch only when its recorded parent is empty, the trunk, or has a
\* PR already (reported on the walk or met or made in this run), each processed branch is the
\* child of the one before, and the first is the branch
\* find_oldest_branch_without_pr returns for the target.
C18_BottomUp ==
    PRRan =>
        /\ last.log # <<>>
        /\ last.log[1].branch
              = find_oldest_branch_without_pr(stacks, last.walk_pr, last.target).branch
        /\ \A i \in 1..Len(last.log) :
              /\ i > 1 =>
                    get_parent_branch(stacks, last.log[i].branch) = last.log[i - 1].branch
              /\ last.log[i].attempted =>
                    LET parent == get_parent_branch(stacks, last.log[i].branch)
                    IN  \/ parent = NoParent
                        \/ parent \in TrunkNames
                        \/ i = 1 /\ parent \in last.walk_pr
                        \/ i > 1 /\ parent \in last.log[i].prs

\* a PR attempted for a branch whose parent got its PR earlier in the run
C18_Witness ==
    /\ PRRan
    /\ Len(last.log) >= 2
    /\ last.log[1].attempted /\ last.log[1].call /\ last.log[1].ok
    /\ last.log[1].branch \notin last.has_pr
    /\ last.log[2].attempted
    /\ get_parent_branch(stacks, last.log[2].branch) = last.log[1].branch

\* the walk of find_oldest_branch_without_pr stops at x
Stops(x) ==
    \/ get_parent_branch(stacks, x) = NoParent
    \/ get_parent_branch(stacks, x) \in TrunkNames
    \/ get_parent_branch(stacks, x) \in last.walk_pr

\* C19: find_oldest_branch_without_pr(b) returns the first branch n on the
\* upward walk from b, b included, whose parent is empty, is the trunk or
\* has a PR; every branch passed over has a non-empty, non-trunk parent
\* without a PR.
C19_OldestWithoutPR ==
    PRRan =>
        LET walk == {last.target} \cup AncestorsOf(stacks, last.target)
        IN  /\ last.oldest \in walk
            /\ Stops(last.oldest)
            /\ \A x \in walk :
                  (x # last.oldest /\ last.oldest \in AncestorsOf(stacks, x)) => ~Stops(x)

\* the walk passed over the target and stopped below a branch with a PR
C19_Witness ==
    /\ PRRan
    /\ last.oldest # last.target
    /\ get_parent_branch(stacks, last.oldest) \in last.walk_pr

\* C20: for a branch on the path that already has a PR no gh pr create call
\* is made, and the run goes on to its child on the path to the target.
C20_ExistingKept ==
    PRRan =>
        \A i \in 1..Len(last.log) :
            last.log[i].branch \in last.has_pr =>
                /\ ~last.log[i].attempted
                /\ ~last.log[i].call
                /\ last.log[i].branch # last.target =>
                      /\ i < Len(last.log)
                      /\ get_parent_branch(stacks, last.log[i + 1].branch) = last.log[i].branch
                      /\ last.log[i + 1].branch
                            \in {last.target} \cup AncestorsOf(stacks, last.target)

\* a branch with a PR was passed and a PR was created for its child
C20_Witness ==
    /\ PRRan
    /\ \E i \in 1..(Len(last.log) - 1) :
          /\ last.log[i].branch \in last.has_pr
          /\ ~last.log[i].call
          /\ last.log[i + 1].call
          /\ last.log[i + 1].ok

\* --------------------------------------------------- the path of a pq pr run
\* the parent walk from `to` up to `from`, both ends included
RECURSIVE PathUp(_, _, _, _)
PathUp(stk, from, current, fuel) ==
    IF current = from \/ current = NoParent \/ fuel = 0
    THEN <<current>>
    ELSE <<current>> \o PathUp(stk, from, get_parent_branch(stk, current), fuel - 1)

branchPath(stk, from, to) == Reverse(PathUp(stk, from, to, Cardinality(Tracked(stk))))

\* the branches a pq pr run processed, in order
Visited == [i \in 1..Len(last.log) |-> last.log[i].branch]

\* C21: when every step succeeds, the branches process_branch_for_pr(oldest,
\* target) visits are, in order, the parent walk from the target up to the
\* oldest branch, reversed; no sibling subtree and no descendant of the
\* target is visited.
C21_VisitsPath ==
    (PRRan /\ \A i \in 1..Len(last.log) : last.log[i].ok) =>
        Visited = branchPath(stacks, last.oldest, last.target)

\* a successful run over two branches or more in a stack that has a branch
\* off the path hanging from a branch on it
C21_Witness ==
    /\ PRRan
    /\ \A i \in 1..Len(last.log) : last.log[i].ok
    /\ Len(last.log) >= 2
    /\ \E b \in Tracked(stacks) :
          /\ b \notin ToSet(Visited)
          /\ get_parent_branch(stacks, b) \in ToSet(Visited)

\* ------------------------------------------------------ delete: refusals
\* the last command was `pq delete`
DeleteRan == last # Idle /\ last.op = "delete"

\* the stack store, the git branches and the checkout are as the command
\* found them
DeleteChangedNothing ==
    /\ stacks = last.before
    /\ gitBranches = last.branches_before
    /\ currentBranch = last.current_before

\* C22: if the branch to delete does not exist in git, is the checked-out
\* branch, or has a recorded parent that does not exist in git, delete_branch
\* exits with an error, having given git no command that changes the
\* repository and leaving the stack store unchanged.
C22_DeleteRefused ==
    DeleteRan =>
        LET parent == get_parent_branch(last.before, last.branch)
        IN  (\/ last.branch \notin last.branches_before
             \/ last.branch = last.current_before
             \/ parent # NoParent /\ parent \notin last.branches_before) =>
                /\ last.exit = 1
                /\ last.git = <<>>
                /\ DeleteChangedNothing

\* a confirmed delete of a branch whose recorded parent is gone from git
C22_Witness ==
    /\ DeleteRan
    /\ last.branch \in last.branches_before
    /\ last.branch # last.current_before
    /\ last.parent_branch # NoParent
    /\ last.parent_branch \notin last.branches_before
    /\ last.outcome = "no_parent"

\* C24: if `git branch -D` fails in delete_branch, the command exits with an
\* error and the stack store is exactly as it was when the command started.
C24_DeleteFailKeepsStack ==
    (DeleteRan /\ last.outcome = "delete_failed") =>
        /\ last.exit = 1
        /\ stacks = last.before

\* the rebase of a child failed in the last `pq delete`
RebaseFailed == DeleteRan /\ last.outcome = "rebase_conflict"

\* C25: if the rebase of a child onto the grandparent fails in delete_branch,
\* the command exits with an error, git is never asked to delete the branch
\* and the branch is still there, the target's stack record is as before, and
\* the failing child and every child after it still record the target as
\* their parent.
C25_RebaseFailKeepsRest ==
    RebaseFailed =>
        /\ last.exit = 1
        /\ last.branch \in gitBranches
        /\ \A i \in 1..Len(last.git) : last.git[i][1] # "branch -D"
        /\ (last.branch \in Tracked(last.before)) => (last.branch \in Tracked(stacks))
        /\ get_parent_branch(stacks, last.branch) = get_parent_branch(last.before, last.branch)
        /\ \A i \in last.fail_at..Len(last.child_branches) :
              get_parent_branch(stacks, last.child_branches[i]) = last.branch

\* the rebase of the second child failed after the first child was re-linked
C25_Witness ==
    /\ RebaseFailed
    /\ last.fail_at = 2
    /\ last.branch \in Tracked(last.before)
    /\ get_parent_branch(stacks, last.child_branches[1]) = last.parent_branch
    /\ get_parent_branch(stacks, last.child_branches[2]) = last.branch

\* ------------------------------------------------------------- pq new
\* the last command was `pq new`
NewRan == last # Idle /\ last.op = "new"

\* C28: create_new_branch exits with an error and writes nothing to the
\* stack when the new name already exists, the base branch does not exist,
\* or git fails to create the branch; otherwise git has the branch and the
\* store got one write, the record of the branch with the base as parent.
C28_NewWritesAfterGit ==
    NewRan =>
        IF \/ last.branch \in last.branches_before
           \/ last.base \notin last.branches_before
           \/ ~last.git_ok
        THEN /\ last.exit = 1
             /\ stacks = last.before
             /\ gitBranches = last.branches_before
        ELSE /\ last.exit = 0
             /\ last.branch \in gitBranches
             /\ get_parent_branch(stacks, last.branch) = last.base
             /\ stacks = add_to_stack(last.before, last.branch, last.base)

\* a name that exists in git already is refused although the base exists
\* and git would have worked
C28_Witness ==
    /\ NewRan
    /\ last.outcome = "exists"
    /\ last.base \in last.branches_before
    /\ last.git_ok

\* --------------------------------------------------- declined confirmation
\* `pq delete` passed its checks, asked, and the answer was no
DeleteDeclined ==
    /\ DeleteRan
    /\ delete_refusal(last.before, last.branches_before, last.current_before, last.branch) = "ok"
    /\ ~last.confirm

\* `pq update` found descendants to update, asked, and the answer was no
UpdateDeclined ==
    /\ last.op = "update"
    /\ branch_exists(last.before, last.start)
    /\ get_all_descendants(last.before, last.start) # {}
    /\ ~last.confirm

\* C23: declining the confirmation prompt of delete or of update ends the
\* command normally, as cancelled and with exit status 0, with no checkout,
\* rebase, push or branch deletion given to git and the stack store, the git
\* branches and the checkout unchanged.
C23_DeclineChangesNothing ==
    /\ DeleteDeclined =>
          /\ last.outcome = "cancelled"
          /\ last.exit = 0
          /\ last.git = <<>>
          /\ DeleteChangedNothing
    /\ UpdateDeclined =>
          /\ last.outcome = "cancelled"
          /\ last.exit = 0
          /\ last.attempted = <<>>
          /\ last.pushes = <<>>
          /\ stacks = last.before
          /\ currentBranch = last.current_before

\* an update over two descendants or more was declined
C23_Witness ==
    /\ UpdateDeclined
    /\ Cardinality(get_all_descendants(last.before, last.start)) >= 2

\* ------------------------------------------------------- conflict policy
\* the branches of the work list whose parent did not end in the conflict
\* list, in work-list order
Eligible ==
    LET Free(pair) == pair[2] \notin ToSet(last.conflicts)
    IN  Firsts(SelectSeq(last.order, Free))

\* no branch is handed to the update operation after one that conflicted
HaltsAtFirstConflict ==
    \A i \in 1..Len(last.attempted) :
        last.attempted[i] \in ToSet(last.conflicts) => i = Len(last.attempted)

\* C29 as stated: the two commands use different conflict policies: sync
\* goes on with the remaining branches after a conflict, plain update halts
\* the whole propagation at the first conflict and attempts no further branch.
C29_UpdateHalts ==
    /\ (PropRan /\ last.op = "sync") => last.attempted = Eligible
    /\ (PropRan /\ last.op = "update") => HaltsAtFirstConflict

\* C29 amended: update and sync use the same conflict policy: after a
\* conflict both go on, and each hands to the update operation exactly the
\* branches of the work list whose parent is not in the conflict list, in
\* work-list order.
C29_BothContinue ==
    PropRan => last.attempted = Eligible

\* a plain update that attempted a branch after one that conflicted
C29_Witness ==
    /\ PropRan
    /\ last.op = "update"
    /\ \E i, j \in 1..Len(last.attempted) :
          /\ i < j
          /\ last.attempted[i] \in ToSet(last.conflicts)

\* ------------------------------------------------------------ push phase
\* the pushes the push loop is to issue: every updated branch that is on the
\* remote, in update order, with force-with-lease; none with --no-push
PushesDue ==
    IF last.skip_push
    THEN <<>>
    ELSE LET due == OnRemote(last.updated, last.remote)
         IN  [i \in 1..Len(due) |-> [branch |-> due[i], force_with_lease |-> TRUE]]

\* C30: after propagation, update and sync push the branches of the updated
\* list that exist on the remote, and only those, always with
\* force-with-lease; branches of the conflict list are never pushed, and
\* with skip_push no push is issued.
C30_PushPolicy ==
    PropRan =>
        /\ last.pushes = PushesDue
        /\ \A i \in 1..Len(last.pushes) :
              last.pushes[i].branch \notin ToSet(last.conflicts)

\* ----------------------------------------------------------------- rename
\* the last command was `pq rename`
RenameRan == last # Idle /\ last.op = "rename"

\* C26: after renaming a tracked branch old to new, parentOf(new) is old's
\* former parent, every former child of old has new as parent, old is no
\* longer in the stack, and old's worktree path is recorded for new; a
\* rename to a name that already exists fails and changes nothing.
C26_RenameRelinks ==
    RenameRan =>
        /\ (last.outcome = "renamed" /\ last.old \in Tracked(last.before)) =>
              /\ last.new \in Tracked(stacks)
              /\ get_parent_branch(stacks, last.new) = get_parent_branch(last.before, last.old)
              /\ \A c \in ToSet(get_child_branches(last.before, last.old)) :
                    get_parent_branch(stacks, c) = last.new
              /\ last.old \notin Tracked(stacks)
              /\ worktree_of(stacks, last.new) = worktree_of(last.before, last.old)
        /\ last.new \in last.branches_before =>
              /\ last.exit = 1
              /\ stacks = last.before
              /\ gitBranches = last.branches_before
              /\ currentBranch = last.current_before

\* a tracked branch with a child and a worktree path was renamed
C26_Witness ==
    /\ RenameRan
    /\ last.outcome = "renamed"
    /\ last.old \in Tracked(last.before)
    /\ get_child_branches(last.before, last.old) # <<>>
    /\ worktree_of(last.before, last.old) = WorktreePath

\* C27: for a branch checked out in a separate worktree, the per-branch
\* update issues no checkout and leaves the main working tree on the branch
\* it was on, reads the worktree's HEAD before any rebase, rebases only when
\* that HEAD is the branch, and when HEAD is another branch returns failure
\* having issued no rebase.
UpdateBranchRan == last.op = "update_branch"

GitVerbs == IF UpdateBranchRan THEN {last.git[i][1] : i \in 1..Len(last.git)} ELSE {}

C27_WorktreeUpdate ==
    (UpdateBranchRan /\ last.is_worktree) =>
        /\ "checkout" \notin GitVerbs
        /\ currentBranch = last.current_before
        /\ last.git[1] = <<"rev-parse HEAD", last.branch, None>>
        /\ \A i \in 1..Len(last.git) : last.git[i][2] = last.branch
        /\ "rebase" \in GitVerbs => last.head = last.branch
        /\ last.head # last.branch =>
              /\ ~last.success
              /\ last.git = <<<<"rev-parse HEAD", last.branch, None>>>>

\* a worktree branch whose worktree has another branch checked out was refused
C27_Witness ==
    /\ UpdateBranchRan /\ last.is_worktree
    /\ last.head # last.branch
    /\ ~last.success
    /\ currentBranch # last.branch

\* ------------------------------------------------ the end of a propagation
\* the branch the run is to return to: the one checked out when it started,
\* the main branch when sync deleted that one
ReturnTarget ==
    IF last.op = "sync" /\ last.current_before \in ToSet(last.deleted)
    THEN last.start
    ELSE last.current_before

\* C31: a rebase conflict never ends an update or sync run early: the run
\* still hands every remaining eligible branch to the update operation, runs
\* the push phase for the updated branches to its end, and finally attempts
\* to return to the branch that was checked out when it started (sync: to the
\* main branch when that branch was deleted).
C31_ConflictNotFatal ==
    (PropRan /\ last.conflicts # <<>>) =>
        /\ last.attempted = Eligible
        /\ last.push_phase
        /\ last.pushes = PushesDue
        /\ last.returned = ReturnTarget

\* the run reached its report with the original branch checked out again
Reported == PropRan /\ last.outcome = "done"

\* C32: an update or sync run that returned to the original branch reports
\* failure exactly when its conflict list is not empty, and it reports only
\* once every descendant of the starting branch has been put on the updated
\* or on the conflict list: one summary at the end, none at the first
\* conflict.
C32_AggregateReport ==
    Reported =>
        /\ ~last.ret <=> last.conflicts # <<>>
        /\ ToSet(Firsts(last.order)) = get_all_descendants(stacks, last.start)
        /\ ToSet(last.updated) \cup ToSet(last.conflicts) = ToSet(Firsts(last.order))

\* a run reported as failed in which a branch was updated after the first
\* conflict
C32_Witness ==
    /\ Reported
    /\ ~last.ret
    /\ \E i, j \in 1..Len(last.order) :
          /\ i < j
          /\ last.order[i][1] \in ToSet(last.conflicts)
          /\ last.order[j][1] \in ToSet(last.updated)

\* ---------------------------------------------- sync's merged branches
\* the last command was a `pq sync` that got past the fetch
SyncRan == last.op = "sync" /\ last.outcome \in {"done", "type_error"}

\* C33: sync offers a branch for deletion if and only if git reports it
\* merged into the main branch and the stack records the main branch as its
\* parent; a branch that was not offered (merged with another recorded
\* parent, or with no record) is not deleted, and an offered branch the user
\* declines stays in git and keeps its stack record.
C33_MergedOffer ==
    SyncRan =>
        /\ ToSet(last.offered) =
              {b \in last.merged \ {last.start} :
                  get_parent_branch(last.before, b) = last.start}
        /\ ToSet(last.deleted) \subseteq ToSet(last.offered)
        /\ \A b \in last.branches_before \ ToSet(last.offered) :
              b \in gitBranches
        /\ \A b \in ToSet(last.offered) \ last.confirmed :
              /\ b \in gitBranches
              /\ b \in Tracked(stacks)
              /\ get_parent_branch(stacks, b) = last.start

\* one merged child of the main branch was deleted, another was declined,
\* and a merged branch recorded under another parent was not offered
C33_Witness ==
    /\ SyncRan
    /\ last.deleted # <<>>
    /\ ToSet(last.offered) \ last.confirmed # {}
    /\ \E b \in last.merged \ ToSet(last.offered) :
          get_parent_branch(last.before, b) \notin {last.start, NoParent}

\* ------------------------------------------------- deletions and prompts
\* the store and the git branches when sync shows its i-th deletion prompt:
\* the deletion loop has handled the first i - 1 offered branches
AtPrompt(i) ==
    HandleMerged(last.before, last.branches_before,
                 SubSeq(last.offered, 1, i - 1), 1, last.confirmed,
                 last.del_fail, <<>>, TRUE)

\* the branch is gone from git and from the store
FullyDeleted(stk, git, b) == b \notin git /\ b \notin Tracked(stk)

\* the branch is in git and recorded as the command found it
FullyIntact(stk, git, b) ==
    /\ b \in git
    /\ b \in Tracked(stk)
    /\ get_parent_branch(stk, b) = get_parent_branch(last.before, b)

\* C34: in delete and in sync's merged-branch handling a stack record is
\* removed only when the branch's git deletion succeeded; at delete's one
\* prompt nothing has been changed yet, and at each of sync's deletion
\* prompts every branch handled before it is either gone from git and from
\* the store or still in both, so stopping at a prompt leaves no deletion
\* half applied.
C34_NoHalfDeletion ==
    /\ DeleteRan =>
          /\ \A b \in Tracked(last.before) \ Tracked(stacks) :
                b = last.branch /\ b \notin gitBranches
          /\ ~last.confirm => DeleteChangedNothing
    /\ SyncRan =>
          /\ \A b \in Tracked(last.before) \ Tracked(stacks) :
                b \in ToSet(last.deleted) /\ b \notin gitBranches
          /\ \A i \in 1..Len(last.offered) : \A j \in 1..(i - 1) :
                \/ FullyDeleted(AtPrompt(i).stacks, AtPrompt(i).git, last.offered[j])
                \/ FullyIntact(AtPrompt(i).stacks, AtPrompt(i).git, last.offered[j])

\* sync showed a prompt after it had deleted one branch and failed to delete
\* another
C34_Witness ==
    /\ SyncRan
    /\ \E i, j, k \in 1..Len(last.offered) :
          /\ i < k /\ j < k
          /\ last.offered[i] \in ToSet(last.deleted)
          /\ last.offered[j] \in last.del_fail
          /\ last.offered[j] \in Tracked(stacks)

\* --------------------------------------------- commands that only read
\* C35: update (traversal, rebases, pushes) and create_pull_requests never
\* change a recorded parent: whatever the outcome (rebase conflict, failed
\* push, failed PR creation, declined prompt) the stack file after the
\* command is the stack file before it.
C35_StackUntouched ==
    last.op \in {"update", "pr"} => stacks = last.before

\* an update that met a rebase conflict and then failed in its push phase
C35_Witness ==
    /\ last.op = "update"
    /\ last.outcome = "type_error"
    /\ last.conflicts # <<>>
    /\ stacks = last.before

\* ------------------------------------------------------ pq pr and the trunk
\* C36: PR orchestration never asks whether the trunk (main/master) is on
\* the remote, never shows the push prompt for it and never pushes it: the
\* check and the prompt are applied to the non-trunk branches on the path
\* only.
C36_TrunkNeverPushed ==
    PRRan =>
        \A i \in 1..Len(last.log) :
            /\ ToSet(last.log[i].checked) \cap TrunkNames = {}
            /\ ToSet(last.log[i].prompts) \cap TrunkNames = {}
            /\ ToSet(last.log[i].pushes) \cap TrunkNames = {}

\* ------------------------------------- sync: children of a deleted branch
\* C37: when sync deletes a merged branch that has children, each child is
\* recorded under the main branch before propagation starts and is handed
\* to the update operation with the main branch as its new base in the same
\* run.
C37_OrphansRebased ==
    SyncRan =>
        \A b \in ToSet(last.deleted) :
            \A c \in ToSet(get_child_branches(last.before, b)) :
                /\ get_parent_branch(stacks, c) = last.start
                /\ <<c, last.start>> \in ToSet(last.order)
                /\ c \in ToSet(last.attempted)

\* a deleted branch had a child, and the child was rebased onto the main
\* branch in the run
C37_Witness ==
    /\ SyncRan
    /\ \E b \in ToSet(last.deleted) :
          \E c \in ToSet(get_child_branches(last.before, b)) :
              /\ c \in ToSet(last.updated)
              /\ get_parent_branch(stacks, c) = last.start

\* ------------------------------------------- remove_from_stack, once more
\* the last command was a `pq untrack` whose remove_from_stack returned True
Removed == last.op = "untrack" /\ last.ret

\* C38: after remove_from_stack(b) has returned True no record left in the
\* repository's stack names b as its parent, in every store the tool's
\* commands can write.
C38_NoDanglingParent ==
    Removed =>
        \A c \in Tracked(stacks) : get_parent_branch(stacks, c) # last.branch

\* the recorded ancestors of a branch, nearest first
RECURSIVE ChainUp(_, _, _)
ChainUp(stk, branch, fuel) ==
    LET parent == get_parent_branch(stk, branch)
    IN  IF parent = NoParent \/ fuel = 0
        THEN <<>>
        ELSE <<parent>> \o ChainUp(stk, parent, fuel - 1)

Chain(stk, branch) == ChainUp(stk, branch, Cardinality(Tracked(stk)))

Without(chain, b) == LET Other(x) == x # b IN SelectSeq(chain, Other)

\* C39: remove_from_stack(b) keeps the ancestor relation among the branches
\* that remain: the chain of ancestors of every other branch is afterwards
\* its chain before with b taken out, so an acyclic stack stays acyclic and
\* a branch keeps its stack root unless b was that root.
C39_AncestorsKept ==
    [][(last'.op = "untrack" /\ last'.ret /\ Acyclic(stacks)) =>
          /\ Acyclic(stacks')
          /\ \A x \in Tracked(stacks) \ {last'.branch} :
                /\ x \in Tracked(stacks')
                /\ Chain(stacks', x) = Without(Chain(stacks, x), last'.branch)
                /\ find_stack_root(stacks, x).root # last'.branch =>
                      find_stack_root(stacks', x).root = find_stack_root(stacks, x).root
      ]_vars

\* a branch recorded under another feature branch was removed from between
\* that branch and a child of its own
C39_Witness ==
    /\ Removed
    /\ last.parent \notin {NoParent, MainBranch}
    /\ \E x \in ToSet(last.relinked) :
          Chain(stacks, x) = <<last.parent, MainBranch>>

\* ---------------------------------------------------------------------
\* C40: a delete run again after a rebase conflict aborted it handles
\* exactly the children the aborted runs had not re-linked yet, in their
\* order: a child re-linked earlier is not a child any more and no git
\* command of the new run names it. When the remaining rebases succeed every
\* original child is recorded under the former grandparent, and when the
\* delete of the branch succeeds too the branch is gone from git and from
\* the store.
DeleteRerun ==
    last.op = "delete" /\ last.rerun

C40_RerunCompletes ==
    DeleteRerun =>
        /\ ToSet(last.earlier) \cap ToSet(last.child_branches) = {}
        /\ ToSet(last.earlier) \cup ToSet(last.child_branches) = ToSet(last.original)
        /\ Len(last.earlier) + Len(last.child_branches) = Len(last.original)
        /\ last.original = last.earlier \o last.child_branches
        /\ \A i \in 1..Len(last.git) : last.git[i][2] \notin ToSet(last.earlier)
        /\ last.outcome \in {"success", "delete_failed"} =>
              \A c \in ToSet(last.original) :
                 get_parent_branch(stacks, c) = last.parent_branch
        /\ last.outcome = "success" =>
              /\ last.branch \notin gitBranches
              /\ last.branch \notin Tracked(stacks)
              /\ last.git = LoopCommands(last.child_branches, last.parent_branch,
                                         Len(last.child_branches))
                               \o <<<<"checkout", last.current_before>>,
                                    <<"branch -D", last.branch>>>>

C40_Witness ==
    /\ DeleteRerun
    /\ last.outcome = "success"
    /\ Len(last.earlier) >= 1
    /\ Len(last.child_branches) >= 1
    /\ last.current_before = last.child_branches[1]
====
